---------------------------- MODULE Spec2Model ----------------------------
(* Verification model of the PokerStudTrainer equity engine                *)
(* (src/src/PokerStudApp.jsx): card helpers, the 5-card ranker rank5, the  *)
(* comparator compareRank, the 7-card selector bestOf7 and the Monte Carlo *)
(* loop simulateEquity together with the app handlers that call it.        *)
(*                                                                         *)
(* A card is the two-character string of the source, modelled as the       *)
(* sequence of its characters: "As" is <<"A","s">>, the empty string is    *)
(* <<>>.  A rank tuple is a sequence of integers.  A TypeError thrown by   *)
(* an evaluator is modelled as the result Thrown.                          *)
EXTENDS Integers, Sequences, FiniteSets, TLC

(* ------------------------------ Card helpers --------------------------- *)
RANKS == <<"2","3","4","5","6","7","8","9","T","J","Q","K","A">>
SUITS == <<"s","h","d","c">>

Range(f) == {f[i] : i \in DOMAIN f}

\* RANK_TO_VAL maps a rank character to its index in RANKS, 0 for "2" .. 12 for "A".
RANK_TO_VAL == [r \in Range(RANKS) |-> (CHOOSE i \in DOMAIN RANKS : RANKS[i] = r) - 1]

\* makeDeck: rank-major, suit-minor, 52 strings r + s.
makeDeck ==
  [k \in 1..(Len(RANKS) * Len(SUITS)) |->
      <<RANKS[((k - 1) \div Len(SUITS)) + 1], SUITS[((k - 1) % Len(SUITS)) + 1]>>]

\* The value JavaScript yields for an index past the end of an array.
Undefined == <<"undefined">>

\* The result standing for an exception (TypeError) thrown by an evaluator.
Thrown == <<>>

cardToObj(cs) == [r |-> cs[1], s |-> cs[2], rv |-> RANK_TO_VAL[cs[1]]]

\* JavaScript null, the sentinel parseCard returns.
Null == <<"null">>

\* String.prototype.toUpperCase and toLowerCase on one character: the letters
\* that matter to a card, one letter that does not, and characters without
\* case.
LowerLetters == <<"a", "c", "d", "h", "j", "k", "q", "s", "t", "x">>
UpperLetters == <<"A", "C", "D", "H", "J", "K", "Q", "S", "T", "X">>
\* A conversion that leaves the character as it is.
keepCase(ch) == ch

toUpperCase(ch) ==
  IF ch \in Range(LowerLetters)
  THEN UpperLetters[CHOOSE k \in DOMAIN LowerLetters : LowerLetters[k] = ch] ELSE ch
toLowerCase(ch) ==
  IF ch \in Range(UpperLetters)
  THEN LowerLetters[CHOOSE k \in DOMAIN UpperLetters : UpperLetters[k] = ch] ELSE ch

\* parseCard, lines 32-37.  A text is the sequence of its characters; a
\* missing argument is Undefined or Null.
parseChecked(r, su) ==
  IF r \notin Range(RANKS) \/ su \notin Range(SUITS) THEN Null ELSE <<r, su>>
parseCard(input) ==
  IF input = Undefined \/ input = Null \/ input = <<>> \/ Len(input) # 2 THEN Null
  ELSE parseChecked(toUpperCase(input[1]), toLowerCase(input[2]))

\* Intermediate values are handed on as operator arguments, so that each is
\* computed once however often it is read.

\* Array.prototype.filter: the elements at the kept indices, in order.  cnt[i]
\* is the number of kept indices up to i.
PickCounted(seq, kept, cnt) ==
  [k \in 1..Cardinality(kept) |-> seq[CHOOSE i \in kept : cnt[i] = k]]

PickKept(seq, kept) ==
  PickCounted(seq, kept, [i \in kept |-> Cardinality({j \in kept : j <= i})])

\* arr.filter(Boolean): the non-empty entries.
Truthy(seq) == PickKept(seq, {i \in DOMAIN seq : seq[i] # <<>>})

\* A removal that heeds only the first entry of the list.
removeFirstOnly(deck, cards) ==
  PickKept(deck, {i \in DOMAIN deck :
                    deck[i] \notin (IF cards = <<>> THEN {} ELSE {cards[1]} \ {<<>>})})

\* removeCards, lines 44-47
removeCards(deck, cards) ==
  PickKept(deck, {i \in DOMAIN deck : deck[i] \notin Range(Truthy(cards))})

\* Array.prototype.sort with a consistent comparator: the stable sort.  Element
\* i lands after every element that compares before it, and after the equal
\* elements that precede it in the input.
Permute(seq, pos) == [k \in DOMAIN seq |-> seq[CHOOSE i \in DOMAIN seq : pos[i] = k]]

\* The comparators of the source all have the form
\* (a,b)=> K1(b)-K1(a) || K2(b)-K2(a): descending by a first key, then by a
\* second.  keys[i] is <<K1, K2>> of the element at index i.
StableSort(seq, keys) ==
  Permute(seq, [i \in DOMAIN seq |->
                  1 + Cardinality({j \in DOMAIN seq :
                          \/ keys[j][1] > keys[i][1]
                          \/ keys[j][1] = keys[i][1] /\ keys[j][2] > keys[i][2]
                          \/ keys[j] = keys[i] /\ j < i})])

\* The keys of (a,b)=>b-a on an array of numbers.
Descend(seq) == [a \in DOMAIN seq |-> <<seq[a], 0>>]
\* The keys of (a,b)=>b.rv-a.rv on an array of card objects.
DescendRv(objs) == [a \in DOMAIN objs |-> <<objs[a].rv, 0>>]
\* The keys of (a,b)=> b[1]-a[1] || b[0]-a[0] on an array of <<rank, count>>.
DescendCount(en) == [a \in DOMAIN en |-> <<en[a][2], en[a][1]>>]
SortDescending(seq) == StableSort(seq, Descend(seq))

\* [...new Set(arr)]: the distinct elements in order of first occurrence.
UniqSeq(seq) == PickKept(seq, {i \in DOMAIN seq : \A j \in 1..(i - 1) : seq[j] # seq[i]})

Max2(a, b) == IF a >= b THEN a ELSE b
Min2(a, b) == IF a <= b THEN a ELSE b
MinOf(S) == CHOOSE i \in S : \A k \in S : i <= k

(* ----------------------- 5-card and 7-card evaluators ------------------ *)

\* Lines 59-64, the sliding window over sortedUniq: the first window of five
\* consecutive values gives the straight's high value; -1 when none matches.
firstWindow(sortedUniq, hits) == IF hits = {} THEN -1 ELSE sortedUniq[MinOf(hits)]

straightWindow(sortedUniq) ==
  firstWindow(sortedUniq,
    {i \in 1..(Len(sortedUniq) - 4) : sortedUniq[i] - sortedUniq[i + 4] = 4})

\* A wheel scored by its ace.
wheelAceHigh(straightHigh, uniqRanks) ==
  IF /\ straightHigh = -1
     /\ {12, 0, 1, 2, 3} \subseteq Range(uniqRanks)
  THEN 12 ELSE straightHigh

\* Lines 66-69, the wheel test A-2-3-4-5, tried only when no window matched.
wheelHigh(straightHigh, uniqRanks) ==
  IF /\ straightHigh = -1
     /\ RANK_TO_VAL["A"] \in Range(uniqRanks)
     /\ 0 \in Range(uniqRanks) /\ 1 \in Range(uniqRanks)
     /\ 2 \in Range(uniqRanks) /\ 3 \in Range(uniqRanks)
  THEN 3 ELSE straightHigh

straightHighOf(uniqRanks) ==
  wheelHigh(straightWindow(SortDescending(uniqRanks)), uniqRanks)

\* Lines 54-55: the entries <<rank, count>> of countByRank, in insertion order.
entriesOf(ranks, uniqRanks) ==
  [k \in DOMAIN uniqRanks |->
     <<uniqRanks[k], Cardinality({i \in DOMAIN ranks : ranks[i] = uniqRanks[k]})>>]

\* Line 56: the entries sorted by count, then rank, both descending.
sortEntries(en) == StableSort(en, DescendCount(en))

\* The entries sorted by rank alone.
countsByRankOnly(ranks, uniqRanks) ==
  StableSort(entriesOf(ranks, uniqRanks), Descend(uniqRanks))

countsOf(ranks, uniqRanks) == sortEntries(entriesOf(ranks, uniqRanks))

\* counts.filter(x=>x[1]===1)
singlesOf(counts) == PickKept(counts, {i \in DOMAIN counts : counts[i][2] = 1})

\* .map(x=>x[0]).sort((a,b)=>b-a)
singleRanks(singles) == SortDescending([i \in DOMAIN singles |-> singles[i][1]])

\* Kickers in ascending order.
kickersAscending(counts) ==
  LET ks == singleRanks(singlesOf(counts))
  IN  [k \in DOMAIN ks |-> ks[Len(ks) + 1 - k]]

kickersOf(counts) == singleRanks(singlesOf(counts))

\* A kicker that is never found.
firstOrNone(singles) == -1

\* counts.find(x=>x[1]===1)?.[0] ?? -1
firstOr(singles) == IF Len(singles) > 0 THEN singles[1][1] ELSE -1
kickerOf(counts) == firstOr(singlesOf(counts))

\* The classification chain of rank5 (lines 71-90), on the values computed
\* above it: ranks (descending), counts, isFlush and straightHigh.
classify(ranks, counts, isFlush, straightHigh) ==
  IF isFlush /\ straightHigh # -1 THEN <<8, straightHigh>>
  ELSE IF Len(counts) = 0 THEN Thrown
  ELSE IF counts[1][2] = 4
       THEN IF Len(counts) < 2 THEN Thrown
            ELSE <<7, counts[1][1], counts[2][1]>>
  ELSE IF counts[1][2] = 3 /\ Len(counts) >= 2 /\ counts[2][2] = 2
       THEN <<6, counts[1][1], counts[2][1]>>
  ELSE IF isFlush THEN <<5>> \o ranks
  ELSE IF straightHigh # -1 THEN <<4, straightHigh>>
  ELSE IF counts[1][2] = 3 THEN <<3, counts[1][1]>> \o kickersOf(counts)
  ELSE IF counts[1][2] = 2 /\ Len(counts) >= 2 /\ counts[2][2] = 2
       THEN <<2, Max2(counts[1][1], counts[2][1]),
                 Min2(counts[1][1], counts[2][1]), kickerOf(counts)>>
  ELSE IF counts[1][2] = 2 THEN <<1, counts[1][1]>> \o kickersOf(counts)
  ELSE <<0>> \o ranks

\* Lines 52-58 and 71-90 on the sorted ranks and suits.
rankParts(ranks, suits, uniqRanks) ==
  classify(ranks, countsOf(ranks, uniqRanks), Cardinality(Range(suits)) = 1,
           straightHighOf(uniqRanks))

rankSorted(objs) ==
  rankParts([i \in DOMAIN objs |-> objs[i].rv], [i \in DOMAIN objs |-> objs[i].s],
            UniqSeq([i \in DOMAIN objs |-> objs[i].rv]))

\* Cards left in their order of arrival.
keepOrder(objs) == objs

\* .sort((a,b)=>b.rv-a.rv), line 51
sortObjs(objs) == StableSort(objs, DescendRv(objs))

rank5(cards) ==
  IF \E i \in DOMAIN cards : cards[i] = Undefined THEN Thrown
  ELSE rankSorted(sortObjs([i \in DOMAIN cards |-> cardToObj(cards[i])]))

\* a[i] ?? -1
At(a, i) == IF i <= Len(a) THEN a[i] ELSE -1

\* The size of the first difference, its sign dropped.
firstDiffSize(a, b, diff) ==
  IF diff = {} THEN 0
  ELSE IF At(a, MinOf(diff)) > At(b, MinOf(diff))
       THEN At(a, MinOf(diff)) - At(b, MinOf(diff))
       ELSE At(b, MinOf(diff)) - At(a, MinOf(diff))

firstDiff(a, b, diff) == IF diff = {} THEN 0 ELSE At(a, MinOf(diff)) - At(b, MinOf(diff))

compareRank(a, b) ==
  firstDiff(a, b, {i \in 1..Max2(Len(a), Len(b)) : At(a, i) # At(b, i)})

\* Loops whose innermost index stops one short.
LoopEndShort == <<3, 4, 5, 6, 6>>

\* The bounds of the five nested loops of bestOf7 (line 100): index k of the
\* tuple runs below LoopEnd[k].
LoopEnd == <<3, 4, 5, 6, 7>>

\* The index tuples the nested loops visit, in loop order (0-based, as in the source).
Combos7 ==
  LET all == {q \in (0..(LoopEnd[1] - 1)) \X (1..(LoopEnd[2] - 1)) \X (2..(LoopEnd[3] - 1))
                      \X (3..(LoopEnd[4] - 1)) \X (4..(LoopEnd[5] - 1)) :
                q[1] < q[2] /\ q[2] < q[3] /\ q[3] < q[4] /\ q[4] < q[5]}
      before(p, q) == \E k \in 1..5 : p[k] < q[k] /\ \A m \in 1..(k - 1) : p[m] = q[m]
      nth(k) == CHOOSE q \in all : Cardinality({p \in all : before(p, q)}) = k - 1
  IN  [k \in 1..Cardinality(all) |-> nth(k)]

\* cards7[i] for a 0-based index i.
Elem(cards, i) == IF i + 1 <= Len(cards) THEN cards[i + 1] ELSE Undefined

\* [idx[a],idx[b],idx[c],idx[d],idx[e]].map(i=>cards7[i])
handAt(cards7, q) == [m \in 1..5 |-> Elem(cards7, q[m])]

\* Line 103: keep r when there is no best yet or it compares greater.
bestStep(best, r) == IF best = <<>> \/ compareRank(r, best) > 0 THEN r ELSE best

RECURSIVE bestLoop(_, _, _)
RECURSIVE bestNext(_, _, _, _)
bestNext(cards7, k, best, r) ==
  IF r = Thrown THEN Thrown ELSE bestLoop(cards7, k + 1, bestStep(best, r))

bestLoop(cards7, k, best) ==
  IF k > Len(Combos7) THEN best
  ELSE bestNext(cards7, k, best, rank5(handAt(cards7, Combos7[k])))

bestOf7(cards7) == bestLoop(cards7, 1, <<>>)

(* ----------------------------- Monte Carlo sim ------------------------- *)
\* A 32-bit unsigned value is the pair <<high 16 bits, low 16 bits>>: the
\* products of the generator exceed the range of 32-bit signed integers, so
\* the arithmetic modulo 2^32 is carried out on 16-bit limbs.
W16 == 65536
LcgMul == 1664525
LcgInc == 1013904223
DefaultSeed == 1337

\* n >>> 0 for 0 <= n < 2^31
toU32(n) == <<(n \div W16) % W16, n % W16>>

\* s = (s * 1664525 + 1013904223) >>> 0
lcgLimbs(hiSum, loSum) == <<(hiSum + (loSum \div W16)) % W16, loSum % W16>>

lcgNext(s) ==
  lcgLimbs(s[1] * (LcgMul % W16) + s[2] * (LcgMul \div W16) + (LcgInc \div W16),
           s[2] * (LcgMul % W16) + (LcgInc % W16))

\* Math.floor((s / 2**32) * m), exact in double precision for m <= 52
randIndex(s, m) == (s[1] * m + ((s[2] * m) \div W16)) \div W16

\* d[i] = d[j] alone: the card at i is lost.
copyOver(d, i, j) == [d EXCEPT ![i + 1] = d[j + 1]]

\* [d[i], d[j]] = [d[j], d[i]] for 0-based i, j
swap(d, i, j) == [d EXCEPT ![i + 1] = d[j + 1], ![j + 1] = d[i + 1]]

\* arr.slice(from, to) for 0 <= from, 0-based, end exclusive, cut at the end.
Slice(arr, from, to) == SubSeq(arr, from + 1, Min2(to, Len(arr)))

RECURSIVE Flatten(_)
Flatten(seqs) == IF seqs = <<>> THEN <<>> ELSE Head(seqs) \o Flatten(Tail(seqs))

RECURSIVE SumSeq(_)
SumSeq(seq) == IF seq = <<>> THEN 0 ELSE Head(seq) + SumSeq(Tail(seq))

\* A seat whose known cards are not looked at.
haveNone(p) == <<>>

\* p.cards.filter(Boolean)
have(p) == Truthy(p.cards)

\* new Set([...board, ...dead, ...players.flatMap(p=>p.cards).filter(Boolean)])
used(players, board, dead) ==
  Range(board) \cup Range(dead)
    \cup Range(Truthy(Flatten([i \in DOMAIN players |-> players[i].cards])))

\* makeDeck().filter(c=>!used.has(c))
deckMinus(u) == PickKept(makeDeck, {i \in DOMAIN makeDeck : makeDeck[i] \notin u})
baseDeck(players, board, dead) == deckMinus(used(players, board, dead))

needBoard(board) == 5 - Len(board)
\* A game of four hole cards a seat.
holeNeededOmaha(players) == [i \in DOMAIN players |-> 4 - Len(have(players[i]))]

holeNeeded(players) == [i \in DOMAIN players |-> 2 - Len(have(players[i]))]

\* A guard that also turns away a deck with exactly the cards needed.
insufficientOrExact(players, board, dead) ==
  Len(baseDeck(players, board, dead)) <= needBoard(board) + SumSeq(holeNeeded(players))

\* The guard of line 123.
insufficient(players, board, dead) ==
  Len(baseDeck(players, board, dead)) < needBoard(board) + SumSeq(holeNeeded(players))

\* Lines 145-146: the running maximum of the ranks from index i on.
RECURSIVE bestRank(_, _, _)
bestRank(ranks, i, best) ==
  IF i > Len(ranks) THEN best
  ELSE IF compareRank(ranks[i], best) > 0 THEN bestRank(ranks, i + 1, ranks[i])
  ELSE bestRank(ranks, i + 1, best)

\* A winner list that stops at the first index whose rank equals best.
firstEqualTo(ranks, best) ==
  <<CHOOSE i \in DOMAIN ranks :
      /\ compareRank(ranks[i], best) = 0
      /\ \A k \in 1..(i - 1) : compareRank(ranks[k], best) # 0>>

\* Lines 147-148: the indices whose rank compares equal to best.
equalTo(ranks, best) ==
  PickKept([i \in DOMAIN ranks |-> i], {i \in DOMAIN ranks : compareRank(ranks[i], best) = 0})

winnersOf(ranks) ==
  IF Len(ranks) = 0 THEN <<>> ELSE equalTo(ranks, bestRank(ranks, 2, ranks[1]))

\* A tally that also credits the first of several winners with a win.
tallyFirstToo(wins, ties, winners) ==
  IF Len(winners) = 0 THEN [wins |-> wins, ties |-> ties]
  ELSE [wins |-> [wins EXCEPT ![winners[1]] = @ + 1],
        ties |-> [i \in DOMAIN ties |->
                    IF Len(winners) > 1 /\ i \in Range(winners) THEN ties[i] + 1 ELSE ties[i]]]

\* Line 149: one win for a sole winner, else one tie for every winner.
tally(wins, ties, winners) ==
  IF Len(winners) = 1
  THEN [wins |-> [wins EXCEPT ![winners[1]] = @ + 1], ties |-> ties]
  ELSE [wins |-> wins,
        ties |-> [i \in DOMAIN ties |-> IF i \in Range(winners) THEN ties[i] + 1 ELSE ties[i]]]

\* A deal that gives every player the cards at the front of the deck.
dealFromFront(players, need, d) ==
  [i \in DOMAIN players |-> have(players[i]) \o Slice(d, 0, need[i])]

\* Lines 132-139: each player's known cards plus the next need[i] deck cards.
dealFrom(players, need, d) ==
  [i \in DOMAIN players |->
     have(players[i]) \o Slice(d, SumSeq(SubSeq(need, 1, i - 1)),
                                  SumSeq(SubSeq(need, 1, i - 1)) + need[i])]

dealHoles(players, d) == dealFrom(players, holeNeeded(players), d)

\* Line 141: the known board plus the next needBoard deck cards.
boardFrom(board, d, ptr) == board \o Slice(d, ptr, ptr + needBoard(board))
dealBoard(players, board, d) == boardFrom(board, d, SumSeq(holeNeeded(players)))

\* The rest of a trial iteration (lines 132-149) on the shuffled deck d,
\* stage by stage.
trialTallied(holes, tboard, ranks, thrown, winners, counts) ==
  [holes |-> holes, board |-> tboard, ranks |-> ranks, thrown |-> thrown,
   winners |-> winners, wins |-> counts.wins, ties |-> counts.ties]

trialDecided(holes, tboard, ranks, thrown, winners, wins, ties) ==
  trialTallied(holes, tboard, ranks, thrown, winners, tally(wins, ties, winners))

trialRanked(holes, tboard, ranks, wins, ties) ==
  trialDecided(holes, tboard, ranks, \E i \in DOMAIN ranks : ranks[i] = Thrown,
               IF \E i \in DOMAIN ranks : ranks[i] = Thrown THEN <<>> ELSE winnersOf(ranks),
               wins, ties)

trialDealt(holes, tboard, wins, ties) ==
  trialRanked(holes, tboard, [i \in DOMAIN holes |-> bestOf7(holes[i] \o tboard)],
              wins, ties)

trial(players, board, d, wins, ties) ==
  trialDealt(dealHoles(players, d), dealBoard(players, board, d), wins, ties)

(* ------------------------------ App handlers --------------------------- *)
\* activePlayers, line 621
activePlayers(players) ==
  [i \in DOMAIN players |->
     IF players[i].active THEN players[i] ELSE [players[i] EXCEPT !.cards = <<<<>>, <<>>>>]]

\* board.filter(Boolean)
knownBoard(boardSlots) == Truthy(boardSlots)

\* The equity-curve effect, lines 669-683.
\* players.find(p=>p.isHero) || players[0]; the app always has seats.
heroOf(players) ==
  IF \E k \in DOMAIN players : players[k].isHero
  THEN players[MinOf({k \in DOMAIN players : players[k].isHero})]
  ELSE players[1]

\* Sweeps of the curve that all play against one opponent.
simPlayersHeadsUp(hCards, opp) ==
  <<[active |-> TRUE, isHero |-> TRUE, cards |-> hCards],
    [active |-> TRUE, isHero |-> FALSE, cards |-> <<<<>>, <<>>>>]>>

\* Line 675: the hero's two cards and opp seats with nothing known.
simPlayers(hCards, opp) ==
  <<[active |-> TRUE, isHero |-> TRUE, cards |-> hCards]>>
    \o [k \in 1..opp |-> [active |-> TRUE, isHero |-> FALSE, cards |-> <<<<>>, <<>>>>]]

\* Ties that are each counted as a whole pot.
tieBucketsOne(ties) == 1

\* Line 677: Math.max(1, sim.ties.reduce((a,b)=>a+(b>0?1:0),0))
tieBuckets(ties) == Max2(1, Cardinality({k \in DOMAIN ties : ties[k] > 0}))

\* Line 678, as the exact fraction <<numerator, denominator>> of
\* (wins[0] + ties[0]/tieBuckets) / trials * 100; 0 for a result of no trials.
equityOf(sim) ==
  IF sim.trials = 0 THEN <<0, 1>>
  ELSE <<(sim.wins[1] * tieBuckets(sim.ties) + sim.ties[1]) * 100,
         tieBuckets(sim.ties) * sim.trials>>

\* ResultsTable, line 250: the Equity % of seat k as the exact fraction of
\* (w + t/(results.ties.filter(x=>x>0).length || 1)) / total * 100; 0 when
\* total is 0.
seatEquity(sim, k) ==
  IF sim.trials = 0 THEN <<0, 1>>
  ELSE <<(sim.wins[k] * tieBuckets(sim.ties) + sim.ties[k]) * 100,
         tieBuckets(sim.ties) * sim.trials>>

\* Lines 626-628, a patch of the cards of one seat.
patchCards(players, idx, cards) ==
  [k \in DOMAIN players |-> IF k = idx THEN [players[k] EXCEPT !.cards = cards] ELSE players[k]]

(* ------------------------------ State ---------------------------------- *)
VARIABLES
  players,     \* app state psa_players: the seats, [active, isHero, cards]
  board,       \* app state psa_board: five slots, <<>> when empty
  dead,        \* app state psa_dead: the dead-card list
  trials,      \* app state psa_trials: the trial setting
  results,     \* app state results: the last simulation shown, NoResult for null
  pc,          \* "idle"; "loop" at the trial loop's test; "shuffle" inside a
               \* trial; "done" when simulateEquity has returned to its caller
  call,        \* the arguments of the simulateEquity call in progress (or last made)
  s,           \* simulateEquity local s: the generator state
  deckArr,     \* simulateEquity local deckArr: the copy of baseDeck
  t,           \* simulateEquity local t: trials completed
  d,           \* trial local d: the working copy being shuffled
  i,           \* trial local i: the shuffle index
  j,           \* trial local j: the last swap index
  wins,        \* simulateEquity local wins
  ties,        \* simulateEquity local ties
  trialHoles,  \* locals of the last trial iteration
  trialBoard,
  trialRanks,
  trialWinners,
  ret,         \* the value the last simulateEquity call returned, NoResult before
  tiedTrials,  \* history: trials of this call with more than one winner
  ref,         \* history: one completed call kept for comparison (its arguments, its
               \* result, the generator state it ended with) and whether a call
               \* with other arguments was made since
  hand,        \* evaluator harness: what is handed to the evaluator under test (five
               \* cards, seven cards, or three ranks to compare pairwise)
  result,      \* evaluator harness: what the evaluator returned
  phase,       \* evaluator harness: "in", "in7", "inCmp" before the call of rank5,
               \* bestOf7, compareRank; "out", "out7", "outCmp" after it;
               \* likewise "inRm"/"outRm" for removeCards and "inParse"/"outParse"
               \* for parseCard
  equityData,  \* app state equityData: the curve shown
  curveOf,     \* history: the two cards the stored curve was computed from
  stale,       \* the equity-curve effect is due: first render, or the cards changed
  opp,         \* equity-curve effect local opp, 0 when the effect is not running
  data         \* equity-curve effect local data

appVars == <<players, board, dead, trials, results>>
simVars == <<pc, call, s, deckArr, t, d, i, j, wins, ties, trialHoles, trialBoard, trialRanks,
             trialWinners, ret, tiedTrials, ref>>
evalVars == <<hand, result, phase>>
curveVars == <<equityData, curveOf, stale, opp, data>>
vars == <<appVars, simVars, evalVars, curveVars>>

NoResult == [wins |-> <<>>, ties |-> <<>>, trials |-> -1]
NoCall == [players |-> <<>>, board |-> <<>>, dead |-> <<>>, trials |-> 0,
           rngSeed |-> <<>>, caller |-> "none"]
NoRef == [call |-> NoCall, ret |-> NoResult, s |-> <<0, 0>>, others |-> FALSE]

Zeros(n) == [k \in 1..n |-> 0]

(* ------------------------------ Bounds --------------------------------- *)
\* Trial counts are scaled down: the slider's 1000..20000 and the presets
\* 10..10000 become 1..MaxTrials.
MaxTrials == 2

(* --------------------------- Tables (inputs) --------------------------- *)
E == <<>>
card(r, su) == <<r, su>>
Seat(active, isHero, c1, c2) == [active |-> active, isHero |-> isHero, cards |-> <<c1, c2>>]
EmptyBoard == <<E, E, E, E, E>>
NumSeats == 9
\* The table after construction or Clear All (lines 613-615, 643-644).
DefaultSeats == [k \in 1..NumSeats |-> Seat(TRUE, k = 1, E, E)]
DeckPrefix(k) == SubSeq(makeDeck, 1, k)

Table(ps, b, dd) == [players |-> ps, board |-> b, dead |-> dd]

TableDefault == Table(DefaultSeats, EmptyBoard, <<>>)
\* hero with aces, one unknown villain, one folded seat holding kings
TableFolded ==
  Table(<<Seat(TRUE, TRUE, card("A","s"), card("A","h")), Seat(TRUE, FALSE, E, E),
          Seat(FALSE, FALSE, card("K","s"), card("K","h"))>>, EmptyBoard, <<>>)
\* a royal flush on the board: every seat plays the board
TableRoyal ==
  Table(<<Seat(TRUE, TRUE, card("2","c"), card("3","c")),
          Seat(FALSE, FALSE, card("4","d"), card("5","d")),
          Seat(TRUE, FALSE, card("7","d"), card("7","h"))>>,
        <<card("T","s"), card("J","s"), card("Q","s"), card("K","s"), card("A","s")>>, <<>>)
\* everything known: a flush against two pair
TableExact ==
  Table(<<Seat(TRUE, TRUE, card("K","c"), card("9","c")),
          Seat(TRUE, FALSE, card("A","h"), card("4","h"))>>,
        <<card("2","h"), card("7","h"), card("9","h"), card("K","d"), card("3","c")>>, <<>>)
\* everything known: two seats split with the same straight, a third holds trips
TableSplit ==
  Table(<<Seat(TRUE, TRUE, card("2","d"), card("2","h")),
          Seat(TRUE, FALSE, card("T","h"), card("3","c")),
          Seat(TRUE, FALSE, card("T","d"), card("4","c"))>>,
        <<card("A","s"), card("K","s"), card("Q","d"), card("J","h"), card("2","c")>>, <<>>)
\* two unknown seats need 4 + 5 cards: 8 left, then exactly 9 left
TableShort == Table(<<Seat(TRUE, TRUE, E, E), Seat(TRUE, FALSE, E, E)>>, EmptyBoard, DeckPrefix(44))
TableJust == Table(<<Seat(TRUE, TRUE, E, E), Seat(TRUE, FALSE, E, E)>>, EmptyBoard, DeckPrefix(43))
\* partly known hands and a board with gaps: 1 + 2 + 3 cards needed, 6 left, then 5
TablePartJust ==
  Table(<<Seat(TRUE, TRUE, card("A","s"), E), Seat(TRUE, FALSE, E, E)>>,
        <<card("K","d"), E, card("Q","c"), E, E>>, DeckPrefix(43))
TablePartShort ==
  Table(<<Seat(TRUE, TRUE, card("A","s"), E), Seat(TRUE, FALSE, E, E)>>,
        <<card("K","d"), E, card("Q","c"), E, E>>, DeckPrefix(43) \o <<card("K","h")>>)
\* the same card in two seats (a stored setup; the card inputs refuse it)
TableDup ==
  Table(<<Seat(TRUE, TRUE, card("A","s"), card("K","d")),
          Seat(TRUE, FALSE, card("A","s"), card("Q","d"))>>, EmptyBoard, <<>>)
TableSingle == Table(<<Seat(TRUE, TRUE, E, E)>>, EmptyBoard, <<>>)
\* a hole card that is also on the board, another that is also dead
TableDupBoard ==
  Table(<<Seat(TRUE, TRUE, card("A","s"), card("K","d")), Seat(TRUE, FALSE, E, E)>>,
        <<card("K","d"), E, E, E, E>>, <<card("A","s")>>)
\* both seats hold queens with an ace kicker; a spade on the river gives the
\* first seat a flush, any other river splits the pot
TableRiver ==
  Table(<<Seat(TRUE, TRUE, card("A","s"), card("Q","h")),
          Seat(TRUE, FALSE, card("A","c"), card("Q","c"))>>,
        <<card("9","s"), card("J","s"), card("7","s"), card("Q","d"), E>>, <<>>)

\* hero with aces, one unknown villain, one folded seat that mucked nines
TableMuck ==
  Table(<<Seat(TRUE, TRUE, card("A","s"), card("A","h")), Seat(TRUE, FALSE, E, E),
          Seat(FALSE, FALSE, card("9","d"), card("9","c"))>>, EmptyBoard, <<>>)

Tables == {TableDefault, TableFolded, TableRoyal, TableExact, TableSplit, TableShort,
           TableJust, TablePartJust, TablePartShort, TableDup, TableSingle, TableRiver,
           TableDupBoard, TableMuck}

(* ------------------------- simulateEquity, stepwise -------------------- *)
\* Lines 110-111: const seed = rngSeed ?? 1337; let s = seed >>> 0.  The
\* state is created inside the call, from the argument alone.  An omitted
\* rngSeed is <<>>.
seedShared(rngSeed) ==
  IF ref # NoRef THEN ref.s
  ELSE IF rngSeed = <<>> THEN <<0, 1337>> ELSE rngSeed

seedState(rngSeed) == IF rngSeed = <<>> THEN toU32(DefaultSeed) ELSE rngSeed

\* Lines 110-125: the frame on entry, and the early return on a short deck.
enter(ps, b, dd, tr, seed, caller) ==
  \E short \in {insufficient(ps, b, dd)} :
  LET out == [wins |-> Zeros(Len(ps)), ties |-> Zeros(Len(ps)), trials |-> 0]
  IN  /\ call' = [players |-> ps, board |-> b, dead |-> dd, trials |-> tr,
                  rngSeed |-> seed, caller |-> caller]
      /\ s' = seedState(seed)
      /\ deckArr' = IF short THEN <<>> ELSE baseDeck(ps, b, dd)
      /\ t' = 0
      /\ d' = <<>> /\ i' = 0 /\ j' = 0
      /\ wins' = Zeros(Len(ps))
      /\ ties' = Zeros(Len(ps))
      /\ trialHoles' = <<>> /\ trialBoard' = <<>>
      /\ trialRanks' = <<>> /\ trialWinners' = <<>>
      /\ tiedTrials' = 0
      /\ pc' = IF short THEN "done" ELSE "loop"
      /\ ret' = IF short THEN out ELSE NoResult

\* The trials slider of ControlBar, line 316.
setTrials(v) ==
  /\ pc = "idle"
  /\ trials' = v
  /\ UNCHANGED <<players, board, dead, results, simVars, evalVars, curveVars>>

\* runSim, lines 646-649
runSim ==
  /\ pc = "idle"
  /\ enter(activePlayers(players), knownBoard(board), dead, trials, <<>>, "runSim")
  /\ UNCHANGED <<appVars, ref, evalVars, curveVars>>

\* runSimWithTrials, lines 650-654
runSimWithTrials(tr) ==
  /\ pc = "idle"
  /\ enter(activePlayers(players), knownBoard(board), dead, tr, <<>>, "runSimWithTrials")
  /\ UNCHANGED <<appVars, ref, evalVars, curveVars>>

\* Lines 129-130: the loop test passes and the trial takes its working copy.
StartTrial ==
  /\ pc = "loop"
  /\ t < call.trials
  /\ d' = deckArr
  /\ i' = Len(deckArr) - 1
  /\ pc' = "shuffle"
  /\ UNCHANGED <<appVars, call, s, deckArr, t, j, wins, ties, trialHoles, trialBoard,
                 trialRanks, trialWinners, ret, tiedTrials, ref, evalVars, curveVars>>

\* Line 131: one pass of the Fisher-Yates loop body.
Swap ==
  /\ pc = "shuffle"
  /\ i > 0
  /\ s' = lcgNext(s)
  /\ j' = randIndex(s', i + 1)
  /\ d' = swap(d, i, j')
  /\ i' = i - 1
  /\ UNCHANGED <<appVars, pc, call, deckArr, t, wins, ties, trialHoles, trialBoard,
                 trialRanks, trialWinners, ret, tiedTrials, ref, evalVars, curveVars>>

\* Lines 132-149: the rest of the iteration, on the shuffled deck.
Trial ==
  /\ pc = "shuffle"
  /\ ~(i > 0)
  /\ \E out \in {trial(call.players, call.board, d, wins, ties)} :
         /\ trialHoles' = out.holes
         /\ trialBoard' = out.board
         /\ trialRanks' = out.ranks
         /\ trialWinners' = out.winners
         /\ wins' = out.wins
         /\ ties' = out.ties
         /\ tiedTrials' = IF Len(out.winners) >= 2 THEN tiedTrials + 1 ELSE tiedTrials
         /\ t' = t + 1
         /\ pc' = IF out.thrown THEN "thrown" ELSE "loop"
  /\ UNCHANGED <<appVars, call, s, deckArr, d, i, j, ret, ref, evalVars, curveVars>>

\* A return that may come after the first trial, still reporting the count
\* asked for.
FinishEarly ==
  /\ pc = "loop"
  /\ t >= 1 \/ ~(t < call.trials)
  /\ pc' = "done"
  /\ ret' = [wins |-> wins, ties |-> ties, trials |-> call.trials]
  /\ UNCHANGED <<appVars, call, s, deckArr, t, d, i, j, wins, ties,
                 trialHoles, trialBoard, trialRanks, trialWinners, tiedTrials, ref, evalVars,
                 curveVars>>

\* Loop exit and line 151: return { wins, ties, trials }.
Finish ==
  /\ pc = "loop"
  /\ ~(t < call.trials)
  /\ pc' = "done"
  /\ ret' = [wins |-> wins, ties |-> ties, trials |-> call.trials]
  /\ UNCHANGED <<appVars, call, s, deckArr, t, d, i, j, wins, ties,
                 trialHoles, trialBoard, trialRanks, trialWinners, tiedTrials, ref, evalVars, curveVars>>

\* The caller's tail: setResults(sim) in runSim (line 648) and
\* runSimWithTrials (line 652), setTrials(t) in the latter (line 653).  The
\* frame of the call is gone afterwards.
Resume ==
  /\ pc = "done"
  /\ results' = IF call.caller # "direct" THEN ret ELSE results
  /\ trials' = IF call.caller = "runSimWithTrials" THEN call.trials ELSE trials
  /\ pc' = "idle"
  /\ call' = NoCall
  /\ s' = <<0, 0>> /\ deckArr' = <<>> /\ t' = 0 /\ d' = <<>> /\ i' = 0 /\ j' = 0
  /\ wins' = <<>> /\ ties' = <<>>
  /\ trialHoles' = <<>> /\ trialBoard' = <<>> /\ trialRanks' = <<>> /\ trialWinners' = <<>>
  /\ ret' = NoResult
  /\ tiedTrials' = 0
  /\ UNCHANGED <<players, board, dead, ref, evalVars, curveVars>>

\* A direct call of simulateEquity with an explicit seed, as a test of the
\* function makes it: the seats as they are, nothing written back to the app.
simulateDirect(seed, tr) ==
  /\ pc = "idle"
  /\ enter(players, knownBoard(board), dead, tr, seed, "direct")
  /\ ref' = IF ref # NoRef /\ (tr # ref.call.trials \/ seed # ref.call.rngSeed)
            THEN [ref EXCEPT !.others = TRUE] ELSE ref
  /\ UNCHANGED <<appVars, evalVars, curveVars>>

\* History only: keep one completed call for later comparison.
Record ==
  /\ pc = "done"
  /\ ref = NoRef
  /\ ref' = [call |-> call, ret |-> ret, s |-> s, others |-> FALSE]
  /\ UNCHANGED <<appVars, pc, call, s, deckArr, t, d, i, j, wins, ties, trialHoles,
                 trialBoard, trialRanks, trialWinners, ret, tiedTrials, evalVars, curveVars>>

\* Seeds as unsigned 32-bit values, <<high, low>> 16-bit halves; the first is
\* the default written out.
SeedInputs == {<<0, 1337>>, <<54321, 12345>>}

InitAt(tables) ==
  /\ \E tb \in tables : players = tb.players /\ board = tb.board /\ dead = tb.dead
  /\ trials = MaxTrials
  /\ results = NoResult
  /\ pc = "idle"
  /\ call = NoCall
  /\ s = <<0, 0>> /\ deckArr = <<>> /\ t = 0 /\ d = <<>> /\ i = 0 /\ j = 0
  /\ wins = <<>> /\ ties = <<>>
  /\ trialHoles = <<>> /\ trialBoard = <<>> /\ trialRanks = <<>> /\ trialWinners = <<>>
  /\ ret = NoResult
  /\ tiedTrials = 0
  /\ ref = NoRef
  /\ hand = <<>> /\ result = <<>> /\ phase = "off"
  /\ equityData = <<>> /\ curveOf = <<>> /\ stale = TRUE /\ opp = 0 /\ data = <<>>

Init == InitAt(Tables)

Next ==
  \/ \E v \in 1..MaxTrials : setTrials(v)
  \/ runSim
  \/ \E tr \in 1..MaxTrials : runSimWithTrials(tr)
  \/ StartTrial
  \/ Swap
  \/ Trial
  \/ Finish
  \/ Resume

Spec == Init /\ [][Next]_vars

\* Direct calls, repeated, with one completed call remembered: a few
\* tables, the seed omitted or given.
DetTables == {TableFolded, TablePartJust, TablePartShort, TableExact, TableSplit}

InitDet == Init /\ Table(players, board, dead) \in DetTables /\ trials = MaxTrials

NextDet ==
  \/ \E seed \in SeedInputs \cup {<<>>}, tr \in 0..MaxTrials : simulateDirect(seed, tr)
  \/ StartTrial
  \/ Swap
  \/ Trial
  \/ Finish
  \/ Resume
  \/ Record

SpecDet == InitDet /\ [][NextDet]_vars

(* ------------------------- Calls that run to their end ---------------- *)
\* The buttons of the app and a call asking for no trials, on a table with
\* cards to spare, one with exactly the cards needed and one a card short.
\* A handler is synchronous code that the engine runs to completion: once a
\* call is entered, its next step is taken.  The step that ends a trial is
\* named by its guard and its count, which only Trial satisfies: it can be
\* taken whenever the shuffle is over.
TrialTaken == pc = "shuffle" /\ ~(i > 0) /\ t' = t + 1
Step == StartTrial \/ Swap \/ Finish \/ Resume

LiveTables == {TableFolded, TableJust, TableShort}

InitLive == InitAt(LiveTables)

NextLive ==
  \/ runSim
  \/ \E tr \in 1..MaxTrials : runSimWithTrials(tr)
  \/ simulateDirect(<<>>, 0)
  \/ StartTrial
  \/ Swap
  \/ Trial
  \/ Finish
  \/ Resume

SpecLive == InitLive /\ [][NextLive]_vars /\ WF_vars(Step) /\ WF_t(TrialTaken)

(* ------------------------ simulateEquity on crowded tables ------------- *)
\* Seats with nothing known, on an empty board with no dead cards: 20 seats
\* (45 cards to deal), 23 seats (51) and 24 seats (53).
Crowd(n) == Table([k \in 1..n |-> Seat(TRUE, k = 1, E, E)], EmptyBoard, <<>>)
CrowdTables == {Crowd(20), Crowd(23), Crowd(24)}

InitCrowd == InitAt(CrowdTables)

NextCrowd ==
  \/ \E seed \in SeedInputs, tr \in 0..MaxTrials : simulateDirect(seed, tr)
  \/ StartTrial
  \/ Swap
  \/ Trial
  \/ Finish
  \/ Resume

SpecCrowd == InitCrowd /\ [][NextCrowd]_vars

(* ---------------------------- The equity curve ------------------------- *)
\* The sweep runs 2500 trials a point (line 676) over 1..8 opponents (line
\* 674); the model runs CurveTrials a point.
CurveTrials == 1
MaxOpp == 8

\* updatePlayer(idx, {cards}), lines 626-628; the effect's dependency (line
\* 683) is the cards of all seats.
updatePlayer(idx, cards) ==
  /\ pc = "idle"
  /\ players' = patchCards(players, idx, cards)
  /\ stale' = (stale \/ players' # players)
  /\ UNCHANGED <<board, dead, trials, results, simVars, evalVars, equityData, curveOf, opp, data>>

\* Lines 669-676: the effect starts; without two hero cards it stores the
\* empty curve and returns, otherwise it makes the first call.
equityEffect ==
  /\ pc = "idle" /\ stale
  /\ stale' = FALSE
  /\ IF Len(Truthy(heroOf(players).cards)) # 2
     THEN /\ equityData' = <<>>
          /\ curveOf' = <<>>
          /\ UNCHANGED <<appVars, simVars, evalVars, opp, data>>
     ELSE /\ data' = <<>>
          /\ opp' = 1
          /\ enter(simPlayers(Truthy(heroOf(players).cards), 1), <<>>, <<>>,
                   CurveTrials, <<>>, "curve")
          /\ UNCHANGED <<appVars, ref, evalVars, equityData, curveOf>>

\* Lines 677-679 and the next pass of the loop of line 674.
CurveNext ==
  /\ pc = "done" /\ call.caller = "curve"
  /\ opp + 1 <= MaxOpp
  /\ data' = Append(data, [opponents |-> opp, equity |-> equityOf(ret)])
  /\ opp' = opp + 1
  /\ enter(simPlayers(call.players[1].cards, opp + 1), <<>>, <<>>, CurveTrials, <<>>, "curve")
  /\ UNCHANGED <<appVars, ref, evalVars, equityData, curveOf, stale>>

\* Lines 677-679 for the last point, and setEquityData(data), line 681.
CurveEnd ==
  /\ pc = "done" /\ call.caller = "curve"
  /\ ~(opp + 1 <= MaxOpp)
  /\ equityData' = Append(data, [opponents |-> opp, equity |-> equityOf(ret)])
  /\ curveOf' = call.players[1].cards
  /\ data' = <<>> /\ opp' = 0
  /\ pc' = "idle"
  /\ call' = NoCall
  /\ s' = <<0, 0>> /\ deckArr' = <<>> /\ t' = 0 /\ d' = <<>> /\ i' = 0 /\ j' = 0
  /\ wins' = <<>> /\ ties' = <<>>
  /\ trialHoles' = <<>> /\ trialBoard' = <<>> /\ trialRanks' = <<>> /\ trialWinners' = <<>>
  /\ ret' = NoResult
  /\ tiedTrials' = 0
  /\ UNCHANGED <<appVars, ref, evalVars, stale>>

\* Seats whose hero is the first seat, a later seat, or no seat.
TableHeroSecond ==
  Table(<<Seat(TRUE, FALSE, card("7","h"), card("7","c")),
          Seat(TRUE, TRUE, card("A","s"), card("K","d"))>>, EmptyBoard, <<>>)
TableNoHero ==
  Table(<<Seat(TRUE, FALSE, card("Q","s"), card("J","s")),
          Seat(TRUE, FALSE, E, E)>>, EmptyBoard, <<>>)
CurveTables == {TableHeroSecond, TableNoHero}
CurveHands == {<<E, E>>, <<E, card("K","d")>>, <<card("A","s"), card("K","d")>>}

InitCurve == InitAt(CurveTables)

NextCurve ==
  \/ \E idx \in DOMAIN players, cards \in CurveHands : updatePlayer(idx, cards)
  \/ equityEffect
  \/ StartTrial
  \/ Swap
  \/ Trial
  \/ Finish
  \/ CurveNext
  \/ CurveEnd

SpecCurve == InitCurve /\ [][NextCurve]_vars

(* ------------------- Evaluator harness: rank5 on 5 cards ---------------- *)
\* Bounded inputs: every multiset of five rank values dressed with one of a
\* few suit patterns, equal cards excluded.
SuitPatterns ==
  { <<"s","s","s","s","s">>, <<"s","h","d","c","s">>, <<"h","h","h","h","c">> }

RankLists ==
  {q \in (0..12) \X (0..12) \X (0..12) \X (0..12) \X (0..12) :
      q[1] >= q[2] /\ q[2] >= q[3] /\ q[3] >= q[4] /\ q[4] >= q[5]}

Distinct(seq) == \A a, b \in DOMAIN seq : a # b => seq[a] # seq[b]

Hands5 ==
  {h \in {[k \in 1..5 |-> <<RANKS[q[k] + 1], p[k]>>] : q \in RankLists, p \in SuitPatterns} :
      Distinct(h)}

SimIdle ==
  /\ players = <<>> /\ board = <<>> /\ dead = <<>> /\ trials = 0 /\ results = NoResult
  /\ pc = "off" /\ call = NoCall
  /\ s = <<0, 0>> /\ deckArr = <<>> /\ t = 0 /\ d = <<>> /\ i = 0 /\ j = 0
  /\ wins = <<>> /\ ties = <<>>
  /\ trialHoles = <<>> /\ trialBoard = <<>> /\ trialRanks = <<>> /\ trialWinners = <<>>
  /\ ret = NoResult /\ tiedTrials = 0 /\ ref = NoRef
  /\ equityData = <<>> /\ curveOf = <<>> /\ stale = FALSE /\ opp = 0 /\ data = <<>>

\* The same cards in another order of arrival.
Scramble == <<3, 5, 1, 4, 2>>
Scrambled(h) == [k \in 1..5 |-> h[Scramble[k]]]

InitRank ==
  /\ \E h \in Hands5 : hand \in {h, Scrambled(h)}
  /\ result = <<>>
  /\ phase = "in"
  /\ SimIdle

CallRank5 ==
  /\ phase = "in"
  /\ result' = rank5(hand)
  /\ phase' = "out"
  /\ UNCHANGED <<hand, appVars, simVars, curveVars>>

NextRank == CallRank5

SpecRank == InitRank /\ [][NextRank]_vars

(* ------------------ Evaluator harness: bestOf7 on 7 cards --------------- *)
\* Seven-card inputs: every seven of thirteen cards that hold a royal flush, a
\* wheel, pairs and trips between them, in an order that mixes the ranks.
Pool7 ==
  <<card("2","d"), card("A","s"), card("K","h"), card("Q","s"), card("2","c"),
    card("J","s"), card("3","c"), card("T","s"), card("A","h"), card("K","s"),
    card("4","d"), card("5","h"), card("9","s")>>

\* The elements of seq at the index set I, in index order.
AtIndices(seq, I) ==
  [k \in 1..Cardinality(I) |-> seq[CHOOSE x \in I : Cardinality({y \in I : y < x}) = k - 1]]

Hands7 == {AtIndices(Pool7, I) : I \in {J \in SUBSET DOMAIN Pool7 : Cardinality(J) = 7}}

InitBest ==
  /\ hand \in Hands7
  /\ result = <<>>
  /\ phase = "in7"
  /\ SimIdle

CallBestOf7 ==
  /\ phase = "in7"
  /\ result' = bestOf7(hand)
  /\ phase' = "out7"
  /\ UNCHANGED <<hand, appVars, simVars, curveVars>>

NextBest == CallBestOf7

SpecBest == InitBest /\ [][NextBest]_vars

(* -------- Evaluator harness: rank5 and bestOf7 on lists of any shape ---- *)
\* Card lists of other lengths, and lists that repeat a card: the sub-lists
\* of the first cards of Pool7.
PoolLists == SubSeq(Pool7, 1, 9)
ListsOfLength(n) ==
  {AtIndices(PoolLists, I) : I \in {J \in SUBSET DOMAIN PoolLists : Cardinality(J) = n}}
\* Five cards of which the last repeats the first.
Repeating == {q \o <<q[1]>> : q \in ListsOfLength(4)}

InitLists ==
  /\ \/ phase = "in" /\ hand \in ListsOfLength(0) \cup ListsOfLength(4) \cup ListsOfLength(5)
                                  \cup ListsOfLength(6) \cup Repeating
     \/ phase = "in7" /\ hand \in ListsOfLength(3) \cup ListsOfLength(4) \cup ListsOfLength(5)
                                   \cup ListsOfLength(6) \cup ListsOfLength(7)
  /\ result = <<>>
  /\ SimIdle

NextLists == CallRank5 \/ CallBestOf7

SpecLists == InitLists /\ [][NextLists]_vars

(* ---------------- Card-helper harness: makeDeck, removeCards ------------ *)
\* Decks: the full deck, a short one, one in another order that holds a card
\* twice, the empty one.  Removal lists: up to MaxRemove entries, empty
\* entries and repeats included.
MaxRemove == 3
DeckInputs ==
  { makeDeck, DeckPrefix(6), <<>>,
    <<card("A","s"), card("2","h"), card("K","d"), card("A","s"), card("2","s")>> }
RemoveEntries == {E, card("2","s"), card("2","h"), card("A","s"), card("K","d"), card("7","c")}
RemoveLists == UNION {[1..n -> RemoveEntries] : n \in 0..MaxRemove}

InitDeck ==
  /\ hand \in DeckInputs \X RemoveLists
  /\ result = <<>>
  /\ phase = "inRm"
  /\ SimIdle

CallRemoveCards ==
  /\ phase = "inRm"
  /\ result' = removeCards(hand[1], hand[2])
  /\ phase' = "outRm"
  /\ UNCHANGED <<hand, appVars, simVars, curveVars>>

NextDeck == CallRemoveCards

SpecDeck == InitDeck /\ [][NextDeck]_vars

(* --------------------- Card-helper harness: parseCard ------------------- *)
\* Texts: nothing at all, and every text of up to two characters over the
\* letters, some digits, a blank and a suit symbol; longer texts, up to
\* MaxTextLen characters, over a few of them.
MaxTextLen == 3
Chars == Range(LowerLetters) \cup Range(UpperLetters) \cup {"2", "9", "0", "1", " ", "_"}
FewChars == {"A", "s", "2", "x"}
TextInputs ==
  {Undefined, Null}
    \cup UNION {[1..n -> Chars] : n \in 0..2}
    \cup UNION {[1..n -> FewChars] : n \in 3..MaxTextLen}

InitParse ==
  /\ hand \in TextInputs
  /\ result = <<>>
  /\ phase = "inParse"
  /\ SimIdle

CallParseCard ==
  /\ phase = "inParse"
  /\ result' = parseCard(hand)
  /\ phase' = "outParse"
  /\ UNCHANGED <<hand, appVars, simVars, curveVars>>

NextParse == CallParseCard

SpecParse == InitParse /\ [][NextParse]_vars

(* ------------- Evaluator harness: the same cards in every order -------- *)
\* Five-card hands, one of each category and a wheel, in all 120 orders;
\* seven-card hands in the orders that exchange two cards, rotate the list or
\* reverse it.
PermHands5 ==
  { <<card("A","s"), card("K","s"), card("Q","s"), card("J","s"), card("T","s")>>,
    <<card("9","c"), card("9","d"), card("9","h"), card("9","s"), card("2","c")>>,
    <<card("3","c"), card("3","d"), card("3","h"), card("K","s"), card("K","c")>>,
    <<card("2","h"), card("7","h"), card("9","h"), card("J","h"), card("K","h")>>,
    <<card("5","s"), card("4","h"), card("3","d"), card("2","c"), card("A","s")>>,
    <<card("8","c"), card("8","d"), card("8","h"), card("A","s"), card("2","c")>>,
    <<card("J","c"), card("J","d"), card("4","h"), card("4","s"), card("A","c")>>,
    <<card("Q","c"), card("Q","d"), card("7","h"), card("5","s"), card("2","c")>>,
    <<card("A","c"), card("J","d"), card("8","h"), card("5","s"), card("3","c")>> }
PermHands7 ==
  {SubSeq(Pool7, k, k + 6) : k \in 1..7} \cup {AtIndices(Pool7, {1, 2, 3, 4, 6, 8, 10})}
Orders5 == {p \in [1..5 -> 1..5] : \A a, b \in 1..5 : a # b => p[a] # p[b]}
Orders7 ==
  {[k \in 1..7 |-> IF k = a THEN b ELSE IF k = b THEN a ELSE k] : a, b \in 1..7}
    \cup {[k \in 1..7 |-> ((k + n) % 7) + 1] : n \in 0..6}
    \cup {[k \in 1..7 |-> 8 - k]}
InOrder(h, p) == [k \in DOMAIN h |-> h[p[k]]]

InitPerm ==
  /\ \/ \E h \in PermHands5, p \in Orders5 : hand = InOrder(h, p) /\ phase = "in"
     \/ \E h \in PermHands7, p \in Orders7 : hand = InOrder(h, p) /\ phase = "in7"
  /\ result = <<>>
  /\ SimIdle

NextPerm ==
  \/ CallRank5
  \/ CallBestOf7

SpecPerm == InitPerm /\ [][NextPerm]_vars

(* ------------- Evaluator harness: compareRank on rank5 results ---------- *)
\* Ranks to compare: those of the hands made of twos, threes and aces, of the
\* pairs made of twos, threes, fours and aces, and of the five-rank hands made
\* of twos to sixes and aces (wheel and six-high straights, flushes, high cards).
CmpHands ==
  {h \in Hands5 :
     LET vs == {CHOOSE v \in 0..12 : RANKS[v + 1] = h[k][1] : k \in 1..5}
     IN  \/ vs \subseteq {0, 1, 12}
         \/ vs \subseteq {0, 1, 2, 12} /\ Cardinality(vs) = 4
         \/ vs \subseteq {0, 1, 2, 3, 4, 12} /\ Cardinality(vs) = 5}

CmpRanks == {rank5(h) : h \in CmpHands}

InitCmp ==
  /\ hand \in CmpRanks \X CmpRanks \X CmpRanks
  /\ result = <<>>
  /\ phase = "inCmp"
  /\ SimIdle

\* compareRank on every ordered pair of the three ranks.
CallCompareRank ==
  /\ phase = "inCmp"
  /\ result' = [x \in 1..3 |-> [y \in 1..3 |-> compareRank(hand[x], hand[y])]]
  /\ phase' = "outCmp"
  /\ UNCHANGED <<hand, appVars, simVars, curveVars>>

NextCmp == CallCompareRank

SpecCmp == InitCmp /\ [][NextCmp]_vars

(* ------------------------------ Properties ----------------------------- *)
\* The entries of a counter array that a step raised by one, and whether the
\* step left every other entry alone.
Raised(before, after) == {k \in DOMAIN before : after[k] = before[k] + 1}
OnlyRaised(before, after) ==
  /\ DOMAIN after = DOMAIN before
  /\ \A k \in DOMAIN before : after[k] = before[k] \/ after[k] = before[k] + 1

WinStep ==
  /\ OnlyRaised(wins, wins') /\ Cardinality(Raised(wins, wins')) = 1
  /\ ties' = ties
TieStep ==
  /\ OnlyRaised(ties, ties') /\ Cardinality(Raised(ties, ties')) >= 2
  /\ wins' = wins

\* C1: in a call with at least one player and a sufficient deck, every
\* completed trial either raises exactly one wins entry and no ties entry, or
\* raises at least two ties entries and no wins entry; so the wins never sum
\* to more than the trials done, wins plus tied trials equals the trials done,
\* and the same holds of the returned counts.
C1_Conservation ==
  /\ [][t' = t + 1 => (WinStep \/ TieStep)]_vars
  /\ [](pc \in {"loop", "shuffle", "done"} =>
          /\ SumSeq(wins) <= t
          /\ SumSeq(wins) + tiedTrials = t)
  /\ [](pc = "done" /\ Len(call.players) >= 1 /\ ret.trials > 0 =>
          /\ ret.trials = t
          /\ SumSeq(ret.wins) <= ret.trials
          /\ SumSeq(ret.wins) + tiedTrials = ret.trials)

\* A call that returned after a trial won outright and a trial that was tied.
C1_Witness ==
  /\ pc = "done"
  /\ ret.trials = MaxTrials
  /\ tiedTrials >= 1
  /\ SumSeq(ret.wins) >= 1

\* The players no other player of the trial beats.
Maximal(ranks) ==
  {k \in DOMAIN ranks : \A m \in DOMAIN ranks : compareRank(ranks[k], ranks[m]) >= 0}

\* C2: in every trial the winners are exactly the players whose rank compares
\* equal to the maximum; a sole maximal player gets one win and nobody a tie;
\* k >= 2 maximal players get one tie each and nobody a win; a player with a
\* strictly lower rank gets nothing.
C2_WinnersAreMaximal ==
  [][t' = t + 1 =>
       /\ Range(trialWinners') = Maximal(trialRanks')
       /\ Len(trialWinners') = Cardinality(Maximal(trialRanks'))
       /\ \A k \in DOMAIN trialRanks' :
            /\ wins'[k] = wins[k] +
                 (IF Maximal(trialRanks') = {k} THEN 1 ELSE 0)
            /\ ties'[k] = ties[k] +
                 (IF k \in Maximal(trialRanks') /\ Cardinality(Maximal(trialRanks')) >= 2
                  THEN 1 ELSE 0)]_vars

\* A first trial that two seats split while a third seat held a lower rank.
C2_Witness ==
  /\ pc = "loop" /\ t = 1
  /\ Len(trialWinners) = 2
  /\ SumSeq(wins) = 0
  /\ \A k \in Range(trialWinners) : ties[k] = 1
  /\ \E k \in DOMAIN trialRanks :
       /\ compareRank(trialRanks[k], trialRanks[trialWinners[1]]) < 0
       /\ ties[k] = 0

\* The seed a call runs with: the one given, or the default.
EffectiveSeed(rngSeed) == IF rngSeed = <<>> THEN <<0, 1337>> ELSE rngSeed
SameArguments(c1, c2) ==
  /\ c1.players = c2.players /\ c1.board = c2.board /\ c1.dead = c2.dead
  /\ c1.trials = c2.trials
  /\ EffectiveSeed(c1.rngSeed) = EffectiveSeed(c2.rngSeed)

\* C3: a call returns the same wins, ties and trials as any earlier call with
\* the same players, board, dead cards, trial count and seed (given, or
\* omitted and so 1337), whatever calls were made before or between the two.
C3_Deterministic ==
  pc = "done" /\ ref # NoRef /\ SameArguments(call, ref.call) => ret = ref.ret

\* The remembered call is repeated after a call with other arguments, once
\* with the seed omitted and once with 1337 written out, and all the trials
\* were run.
C3_Witness ==
  /\ pc = "done" /\ ref # NoRef /\ ref.others
  /\ SameArguments(call, ref.call)
  /\ call.rngSeed # ref.call.rngSeed
  /\ ret.trials = MaxTrials
  /\ SumSeq(ret.wins) + SumSeq(ret.ties) > 0

\* The cards of the deck that are neither on the board, nor dead, nor a known
\* hole card, and the cards a trial has to deal.
CardsLeft(c) ==
  Range(makeDeck) \ (Range(c.board) \cup Range(c.dead)
                       \cup {c.players[k].cards[n] : k \in DOMAIN c.players, n \in 1..2})
MissingHole(c) ==
  SumSeq([k \in DOMAIN c.players |->
            Cardinality({n \in 1..2 : c.players[k].cards[n] = <<>>})])
Short(c) == Cardinality(CardsLeft(c)) < (5 - Len(c.board)) + MissingHole(c)
Degenerate(r) ==
  /\ r.trials = 0
  /\ \A k \in DOMAIN r.wins : r.wins[k] = 0
  /\ \A k \in DOMAIN r.ties : r.ties[k] = 0

\* C4 as stated: a call returns the degenerate result, having run no trial,
\* if and only if the deck left is smaller than the cards to deal.
C4_DegenerateIffShort ==
  pc = "done" => ((Degenerate(ret) /\ t = 0) <=> Short(call))

\* C4, amended: a short deck makes the call return the degenerate result at
\* once, without a trial and without throwing; a deck that is large enough,
\* exactly or with room, makes it run the requested trials; so a call that
\* asks for at least one trial returns trials = 0 only on a short deck.
C4_ShortDeck ==
  /\ pc \in {"loop", "shuffle", "thrown"} => ~Short(call)
  /\ pc = "done" /\ Short(call) => Degenerate(ret) /\ t = 0
  /\ pc = "done" /\ ~Short(call) => ret.trials = call.trials /\ t = call.trials
  /\ pc = "done" /\ call.trials >= 1 /\ ret.trials = 0 => Short(call)

\* A call for trials on a deck one card short has returned the degenerate
\* result.
C4_Witness ==
  /\ pc = "done"
  /\ call.trials = MaxTrials
  /\ Cardinality(CardsLeft(call)) + 1 = (5 - Len(call.board)) + MissingHole(call)
  /\ Degenerate(ret) /\ t = 0

\* C5: in a simulation started from the app, a seat whose active flag is
\* false is dealt no hole cards in any trial and its wins and ties stay 0.
C5_FoldedSeatExcluded ==
  call.caller \in {"runSim", "runSimWithTrials"} =>
    \A k \in DOMAIN players :
      ~players[k].active =>
        /\ k \in DOMAIN trialHoles => trialHoles[k] = <<>>
        /\ k \in DOMAIN wins => wins[k] = 0
        /\ k \in DOMAIN ties => ties[k] = 0

\* The standard classification of five cards, from the hand itself: rank
\* values 0..12 for 2..A, how often each occurs, the suits.
ValueOf(c) == CHOOSE v \in 0..12 : RANKS[v + 1] = c[1]
ValuesIn(h) == {ValueOf(h[k]) : k \in DOMAIN h}
Times(h, v) == Cardinality({k \in DOMAIN h : ValueOf(h[k]) = v})
WithTimes(h, n) == {v \in ValuesIn(h) : Times(h, v) = n}
Descending(S) == [k \in 1..Cardinality(S) |-> CHOOSE v \in S : Cardinality({w \in S : w > v}) = k - 1]
MaxOf(S) == CHOOSE v \in S : \A w \in S : w <= v
Wheel == {12, 0, 1, 2, 3}
IsFlushHand(h) == \A a, b \in DOMAIN h : h[a][2] = h[b][2]
IsStraightHand(h) ==
  /\ Cardinality(ValuesIn(h)) = 5
  /\ \/ MaxOf(ValuesIn(h)) - MinOf(ValuesIn(h)) = 4
     \/ ValuesIn(h) = Wheel
Category(h) ==
  IF IsFlushHand(h) /\ IsStraightHand(h) THEN 8
  ELSE IF WithTimes(h, 4) # {} THEN 7
  ELSE IF WithTimes(h, 3) # {} /\ WithTimes(h, 2) # {} THEN 6
  ELSE IF IsFlushHand(h) THEN 5
  ELSE IF IsStraightHand(h) THEN 4
  ELSE IF WithTimes(h, 3) # {} THEN 3
  ELSE IF Cardinality(WithTimes(h, 2)) = 2 THEN 2
  ELSE IF Cardinality(WithTimes(h, 2)) = 1 THEN 1
  ELSE 0
StraightTop(h) == IF ValuesIn(h) = Wheel THEN 3 ELSE MaxOf(ValuesIn(h))
Payload(h) ==
  CASE Category(h) \in {8, 4} -> <<StraightTop(h)>>
    [] Category(h) = 7 -> Descending(WithTimes(h, 4)) \o Descending(WithTimes(h, 1))
    [] Category(h) = 6 -> Descending(WithTimes(h, 3)) \o Descending(WithTimes(h, 2))
    [] Category(h) \in {5, 0} -> Descending(ValuesIn(h))
    [] Category(h) = 3 -> Descending(WithTimes(h, 3)) \o Descending(WithTimes(h, 1))
    [] Category(h) = 2 -> Descending(WithTimes(h, 2)) \o Descending(WithTimes(h, 1))
    [] Category(h) = 1 -> Descending(WithTimes(h, 2)) \o Descending(WithTimes(h, 1))

\* C7: the first element of rank5's result on five distinct cards is the
\* hand's category under the standard classification in priority order, the
\* wheel and the ace-high run both counted as straights.
C7_Category ==
  phase = "out" /\ Len(hand) = 5 => result # Thrown /\ result[1] = Category(hand)

\* rank5 has classed a full house whose pair outranks its trips.
C7_Witness ==
  /\ phase = "out" /\ Len(hand) = 5
  /\ result[1] = 6
  /\ \E v \in WithTimes(hand, 2) : \A w \in WithTimes(hand, 3) : v > w

\* C8: the elements of rank5's result after the category are the category's
\* tie-break payload in rank values 0..12.
C8_Payload ==
  phase = "out" /\ Len(hand) = 5 =>
    result # Thrown /\ SubSeq(result, 2, Len(result)) = Payload(hand)

\* rank5 has scored a pair with three kickers that arrived out of order.
C8_Witness ==
  /\ phase = "out" /\ Len(hand) = 5
  /\ result[1] = 1 /\ Len(result) = 5
  /\ \E a, b \in DOMAIN hand :
       /\ a < b /\ ValueOf(hand[a]) < ValueOf(hand[b])
       /\ Times(hand, ValueOf(hand[a])) = 1 /\ Times(hand, ValueOf(hand[b])) = 1

\* A wheel in mixed suits and a wheel in spades.
WheelMixed == <<card("5","s"), card("4","h"), card("3","d"), card("2","c"), card("A","s")>>
WheelSuited == [k \in 1..5 |-> card(WheelMixed[k][1], "s")]
WheelOfKind(cat) == IF cat = 8 THEN WheelSuited ELSE WheelMixed

\* C9: the wheel is a straight (a straight flush when suited) of high value 3;
\* it compares below every other straight of its kind and above every three
\* of a kind; an ace with four cards that are neither 2-3-4-5 nor T-J-Q-K is
\* never a straight.
C9_Wheel ==
  phase = "out" /\ Len(hand) = 5 =>
    /\ ValuesIn(hand) = Wheel =>
         result = <<(IF IsFlushHand(hand) THEN 8 ELSE 4), 3>>
    /\ result[1] \in {4, 8} /\ ValuesIn(hand) # Wheel =>
         /\ compareRank(rank5(WheelOfKind(result[1])), result) < 0
         /\ compareRank(result, rank5(WheelOfKind(result[1]))) > 0
    /\ result[1] = 3 =>
         /\ compareRank(rank5(WheelMixed), result) > 0
         /\ compareRank(rank5(WheelSuited), result) > 0
    /\ /\ 12 \in ValuesIn(hand)
       /\ ValuesIn(hand) \ {12} \notin {{0, 1, 2, 3}, {8, 9, 10, 11}}
       => result[1] \notin {4, 8}

\* rank5 has scored a wheel in mixed suits whose ace arrived first.
C9_Witness ==
  /\ phase = "out" /\ Len(hand) = 5
  /\ ValuesIn(hand) = Wheel /\ ~IsFlushHand(hand)
  /\ ValueOf(hand[1]) = 12
  /\ result = <<4, 3>>

\* The 21 five-card hands inside a seven-card list.
FiveOfSeven(h) == {AtIndices(h, I) : I \in {J \in SUBSET (1..7) : Cardinality(J) = 5}}
BestAmong(r, rs) == r \in rs /\ \A x \in rs : compareRank(r, x) >= 0

\* C6: on seven distinct cards bestOf7 returns a rank that is the rank5 of
\* one of the 21 five-card subsets and compares at least equal to the rank5 of
\* every one of them.
C6_BestOfSeven ==
  phase = "out7" =>
    /\ result # Thrown
    /\ Cardinality(FiveOfSeven(hand)) = 21
    /\ BestAmong(result, {rank5(x) : x \in FiveOfSeven(hand)})

\* bestOf7 has returned a rank that only five-card subsets holding both the
\* first and the last of the seven cards reach.
C6_Witness ==
  /\ phase = "out7"
  /\ \A x \in FiveOfSeven(hand) :
       rank5(x) = result => x[1] = hand[1] /\ x[5] = hand[7]

Sign(n) == IF n > 0 THEN 1 ELSE IF n < 0 THEN -1 ELSE 0

\* C10: on rank5 results compareRank is a total preorder: a rank compares
\* equal to itself, the sign of compareRank(a, b) is the opposite of the sign
\* of compareRank(b, a) (so exactly one of greater, less, equal holds), and
\* greater-or-equal and equal are both transitive.
C10_TotalPreorder ==
  phase = "outCmp" =>
    /\ \A x \in 1..3 : result[x][x] = 0
    /\ \A x, y \in 1..3 : Sign(result[x][y]) = -Sign(result[y][x])
    /\ \A x, y, z \in 1..3 :
         /\ result[x][y] >= 0 /\ result[y][z] >= 0 => result[x][z] >= 0
         /\ result[x][y] = 0 /\ result[y][z] = 0 => result[x][z] = 0

\* Three ranks of different lengths in strictly falling order were compared.
C10_Witness ==
  /\ phase = "outCmp"
  /\ result[1][2] > 0 /\ result[2][3] > 0 /\ result[1][3] > 0
  /\ Len(hand[1]) < Len(hand[2]) /\ Len(hand[2]) < Len(hand[3])

\* The five-card hands inside a card list of any length.
FiveOf(h) ==
  {AtIndices(h, I) : I \in {J \in SUBSET DOMAIN h : Cardinality(J) = 5}}

\* C11: on 5, 6 or 7 distinct cards bestOf7 does not fail and returns the
\* maximal rank5 among the five-card subsets of the cards present.
C11_BestOfFiveToSeven ==
  phase = "out7" /\ Len(hand) \in {5, 6, 7} =>
    /\ result # Thrown
    /\ BestAmong(result, {rank5(x) : x \in FiveOf(hand)})

\* C12: rank5 fails on a list of fewer or more than 5 cards and on a list
\* that holds a card twice; bestOf7 fails on fewer than 5 cards.
C12_InvalidInputRejected ==
  /\ phase = "out" /\ (Len(hand) # 5 \/ ~Distinct(hand)) => result = Thrown
  /\ phase = "out7" /\ Len(hand) < 5 => result = Thrown

\* The cards a call is given, as a list: board, dead, known hole cards.
GivenCards(c) ==
  c.board \o c.dead \o Truthy(Flatten([k \in DOMAIN c.players |-> c.players[k].cards]))
HasDuplicate(c) == ~Distinct(GivenCards(c))

\* C13: a call whose inputs hold the same card more than once runs no trial
\* and returns no counts.
C13_DuplicatesRejected ==
  call # NoCall /\ HasDuplicate(call) => pc \notin {"loop", "shuffle", "done"}

\* The hole cards of a trial that were dealt rather than given, per player,
\* and the board cards that were dealt.
DealtHole(k) ==
  {trialHoles[k][n] : n \in 1..Len(trialHoles[k])}
    \ {call.players[k].cards[n] : n \in 1..2}
DealtBoard == Range(trialBoard) \ Range(call.board)

\* C14: with no duplicate among the inputs, at most 5 board cards and at most
\* 2 known hole cards per player, a trial gives every player 2 hole cards and
\* the table 5 board cards, all 2n + 5 pairwise distinct, every dealt card
\* being a deck card that is neither on the given board, nor dead, nor a
\* known hole card, and the cards dealt do not outnumber the shuffled deck.
C14_DealtWithoutReplacement ==
  /\ pc \in {"loop", "shuffle", "done"} /\ t >= 1
  /\ ~HasDuplicate(call) /\ Len(call.board) <= 5
  =>
  /\ Len(trialBoard) = 5
  /\ \A k \in DOMAIN trialHoles : Len(trialHoles[k]) = 2
  /\ Len(trialHoles) = Len(call.players)
  /\ Distinct(Flatten(trialHoles) \o trialBoard)
  /\ \A k \in DOMAIN trialHoles : DealtHole(k) \subseteq CardsLeft(call)
  /\ DealtBoard \subseteq CardsLeft(call)
  /\ \A k \in DOMAIN trialHoles : DealtHole(k) \cap Range(call.dead) = {}
  /\ DealtBoard \cap Range(call.dead) = {}
  /\ MissingHole(call) + (5 - Len(call.board)) <= Len(deckArr)
  /\ Cardinality(DealtBoard \cup UNION {DealtHole(k) : k \in DOMAIN trialHoles})
       = MissingHole(call) + (5 - Len(call.board))

\* A trial was dealt from a deck thinned by dead cards that held exactly the
\* cards needed, to a seat with one card known and a seat with none.
C14_Witness ==
  /\ pc = "loop" /\ t >= 1
  /\ ~HasDuplicate(call)
  /\ call.dead # <<>>
  /\ MissingHole(call) + (5 - Len(call.board)) = Len(deckArr)
  /\ \E k \in DOMAIN trialHoles : Cardinality(DealtHole(k)) = 1
  /\ \E k \in DOMAIN trialHoles : Cardinality(DealtHole(k)) = 2

\* The rank-major order of the deck: every rank from 2 to A, and within a
\* rank the suits s, h, d, c.
CanonicalDeck == [k \in 1..52 |-> <<RANKS[((k - 1) \div 4) + 1], SUITS[((k - 1) % 4) + 1]>>]
\* The positions of a deck whose card is not an entry of the removal list.
Surviving(deck, cards) == {k \in DOMAIN deck : \A n \in DOMAIN cards : cards[n] # deck[k]}

\* C15: makeDeck is the 52 pairwise distinct cards in canonical order, and
\* removeCards(deck, cards) is deck with exactly the positions holding a card
\* of the removal list struck out: a sub-sequence in the same order, never
\* longer, free of the listed cards, keeping every other card; empty entries
\* of the list count for nothing.
C15_DeckAndRemove ==
  /\ Len(makeDeck) = 52 /\ Distinct(makeDeck) /\ makeDeck = CanonicalDeck
  /\ phase = "outRm" =>
       /\ result = AtIndices(hand[1], Surviving(hand[1], hand[2]))
       /\ Len(result) <= Len(hand[1])
       /\ \A k \in DOMAIN result : \A n \in DOMAIN hand[2] : result[k] # hand[2][n]
       /\ \A k \in DOMAIN hand[1] :
            (\A n \in DOMAIN hand[2] : hand[1][k] # hand[2][n])
              => \E m \in DOMAIN result : result[m] = hand[1][k]

\* Two cards were struck from the full deck by a list that also held an
\* empty entry.
C15_Witness ==
  /\ phase = "outRm"
  /\ hand[1] = makeDeck
  /\ \E n \in DOMAIN hand[2] : hand[2][n] = E
  /\ Len(result) = 50

\* Two characters that are the same letter in either case, or the same character.
SameLetter(a, b) ==
  \/ a = b
  \/ \E k \in DOMAIN LowerLetters : {a, b} = {LowerLetters[k], UpperLetters[k]}
\* A text of two characters, a rank and then a suit, in either case.
IsCardText(x) ==
  /\ x \notin {Undefined, Null}
  /\ Len(x) = 2
  /\ \E r \in Range(RANKS) : SameLetter(x[1], r)
  /\ \E su \in Range(SUITS) : SameLetter(x[2], su)

\* C16: parseCard returns null or a card of the deck in canonical form, never
\* anything else; it returns a card exactly for a text of two characters that
\* are a rank and a suit up to case; and parsing the card it returned gives
\* that card again.
C16_ParseCard ==
  phase = "outParse" =>
    /\ result = Null \/ result \in Range(makeDeck)
    /\ result # Null <=> IsCardText(hand)
    /\ result # Null =>
         /\ SameLetter(result[1], hand[1]) /\ SameLetter(result[2], hand[2])
         /\ result[1] \in Range(RANKS) /\ result[2] \in Range(SUITS)
         /\ parseCard(result) = result

\* A card typed with a lower-case rank and an upper-case suit was parsed.
C16_Witness ==
  /\ phase = "outParse"
  /\ hand = <<"a", "S">>
  /\ result = <<"A", "s">>

\* A call in which nothing is hidden: five board cards, two hole cards a seat.
AllKnown(c) ==
  /\ Len(c.board) = 5
  /\ \A k \in DOMAIN c.players : \A n \in 1..2 : c.players[k].cards[n] # <<>>
\* The seats whose best hand of hole cards plus board is maximal.
ExpectedWinners(c) ==
  Maximal([k \in DOMAIN c.players |-> bestOf7(c.players[k].cards \o c.board)])
\* The result in which the seats of w took every trial: a sole seat as wins,
\* several seats as ties.
OutcomeOf(w, r) ==
  \A k \in DOMAIN call.players :
    /\ r.wins[k] = IF k \in w /\ Cardinality(w) = 1 THEN r.trials ELSE 0
    /\ r.ties[k] = IF k \in w /\ Cardinality(w) >= 2 THEN r.trials ELSE 0
Proportional(r1, r2) ==
  \A k \in DOMAIN r1.wins :
    /\ r1.wins[k] * r2.trials = r2.wins[k] * r1.trials
    /\ r1.ties[k] * r2.trials = r2.ties[k] * r1.trials
ExactFor(w) ==
  /\ t > 0 =>
       /\ trialHoles = [k \in DOMAIN call.players |-> call.players[k].cards]
       /\ trialBoard = call.board
       /\ Range(trialWinners) = w
  /\ pc = "done" =>
       /\ ret.trials = call.trials
       /\ OutcomeOf(w, ret)
       /\ ref # NoRef =>
            /\ Proportional(ret, ref.ret)
            /\ ref.call.trials = call.trials => ret = ref.ret

\* C17: with five board cards and two hole cards a seat known, every trial
\* plays the given cards and has the same winners, the seats with the maximal
\* bestOf7 of hole cards plus board; the result gives a sole winner every trial
\* as a win, or two or more winners every trial as a tie, and nothing else;
\* another seed gives the same result and another trial count the same result
\* in proportion.
C17_AllKnownExact ==
  call # NoCall /\ AllKnown(call) /\ pc \in {"loop", "done"} =>
    ExactFor(ExpectedWinners(call))

\* A split pot with everything known, returned after a call with another
\* seed and another trial count.
C17_Witness ==
  /\ pc = "done" /\ AllKnown(call) /\ ref # NoRef
  /\ EffectiveSeed(call.rngSeed) # EffectiveSeed(ref.call.rngSeed)
  /\ call.trials # ref.call.trials /\ call.trials > 0 /\ ref.call.trials > 0
  /\ Cardinality({k \in DOMAIN ret.ties : ret.ties[k] = call.trials}) >= 2

\* The known cards of the hero seat: the first seat marked as hero, or the
\* first seat when none is.
HeroSeat ==
  IF \A k \in DOMAIN players : ~players[k].isHero THEN 1
  ELSE CHOOSE k \in DOMAIN players :
         players[k].isHero /\ \A m \in 1..(k - 1) : ~players[m].isHero
HeroKnown == {n \in 1..2 : players[HeroSeat].cards[n] # <<>>}
\* A call for the hero's two cards against k seats with nothing known, on an
\* empty board with no dead cards.
SweepCall(c, k) ==
  /\ Len(c.players) = k + 1
  /\ c.players[1].cards = players[HeroSeat].cards
  /\ \A m \in 2..(k + 1) : c.players[m].cards = <<<<>>, <<>>>>
  /\ c.board = <<>> /\ c.dead = <<>>
\* The fraction eq is (wins[0] + ties[0] / buckets) / trials * 100, buckets
\* being the number of seats with a tie, 1 when there is none.
Buckets(r) ==
  IF \A k \in DOMAIN r.ties : r.ties[k] <= 0 THEN 1
  ELSE Cardinality({k \in DOMAIN r.ties : r.ties[k] > 0})
ValueIs(eq, r) ==
  /\ eq[2] > 0
  /\ eq[1] * Buckets(r) * r.trials = eq[2] * 100 * (r.wins[1] * Buckets(r) + r.ties[1])
Ascending(curve) == \A k \in DOMAIN curve : curve[k].opponents = k
SweepRunning ==
  opp > 0 =>
    /\ opp \in 1..8 /\ Len(data) = opp - 1 /\ Ascending(data)
    /\ Cardinality(HeroKnown) = 2
    /\ call.caller = "curve" /\ SweepCall(call, opp) /\ call.trials = CurveTrials
    /\ pc = "done" => ret.trials = CurveTrials /\ t = CurveTrials /\ ret.trials > 0
SweepSettled ==
  pc = "idle" /\ ~stale =>
    IF Cardinality(HeroKnown) = 2
    THEN Len(equityData) = 8 /\ Ascending(equityData)
    ELSE equityData = <<>>
NewPoint(curve) ==
  /\ curve # <<>>
  /\ curve[Len(curve)].opponents = opp
  /\ ValueIs(curve[Len(curve)].equity, ret)
SweepStep ==
  pc = "done" /\ call.caller = "curve" =>
    /\ opp' = 0 => NewPoint(equityData')
    /\ opp' # 0 => opp' = opp + 1 /\ NewPoint(data') /\ equityData' = equityData

\* C18: once the effect has run, a hero with two known cards has a curve of 8
\* points for 1, 2, ..., 8 opponents in this order and a hero with fewer an
\* empty curve; the point for k opponents is made from one call for the
\* hero's cards and k seats with nothing known, empty board and no dead
\* cards, which completes all its trials, and its value is
\* (wins[0] + ties[0] / tieBuckets) / trials * 100.
C18_EquityCurve == [](SweepRunning /\ SweepSettled) /\ [][SweepStep]_vars

\* A curve of 8 points is shown for the hero's two cards, with a point where
\* the hero took the pot or a share of it.
C18_Witness ==
  /\ pc = "idle" /\ ~stale /\ Cardinality(HeroKnown) = 2
  /\ Len(equityData) = 8
  /\ \E k \in 1..8 : equityData[k].equity[1] > 0

\* A call for n seats with nothing known, an empty board and no dead cards.
Unknowns(c, n) ==
  /\ Len(c.players) = n
  /\ \A k \in DOMAIN c.players : c.players[k].cards = <<<<>>, <<>>>>
  /\ c.board = <<>> /\ c.dead = <<>>

\* C19 as stated: a call for 20 seats with nothing known, an empty board and
\* no dead cards returns trials = 0.
C19_TwentyUnknownShort ==
  pc = "done" /\ Unknowns(call, 20) => ret.trials = 0

\* C19, amended: 20 such seats need 45 of the 52 cards, so the call runs and
\* returns every trial asked for; so does a call for 23 seats (51 cards);
\* the insufficient-deck result comes with 24 seats (53 cards).
C19_CrowdDealt ==
  pc = "done" =>
    /\ Unknowns(call, 20) \/ Unknowns(call, 23) =>
         /\ ret.trials = call.trials /\ t = call.trials
         /\ SumSeq(ret.wins) + tiedTrials = call.trials
    /\ Unknowns(call, 24) => Degenerate(ret) /\ t = 0

\* A call for 20 unknown seats has returned after running all its trials.
C19_Witness ==
  /\ pc = "done" /\ Unknowns(call, 20)
  /\ call.trials = MaxTrials /\ ret.trials = MaxTrials /\ t = MaxTrials
  /\ Len(trialHoles) = 20 /\ Len(trialBoard) = 5

\* What a returned call reports: the trials it ran, which are all those asked
\* for unless the deck was short, and none only if the deck was short or none
\* was asked for.
CountReturned ==
  pc = "done" =>
    /\ ret.trials = t
    /\ ~Short(call) => ret.trials = call.trials
    /\ ret.trials = 0 => Short(call) \/ call.trials = 0
\* A preset stores its result and its count as the trial setting.
PresetStored ==
  pc = "done" /\ call.caller = "runSimWithTrials" =>
    results' = ret /\ trials' = call.trials
InCall == pc \in {"loop", "shuffle", "done"}

\* C20: every call of simulateEquity returns and its caller finishes; the trials it returns are the
\* trials it ran, equal to the count asked for when the deck suffices and 0
\* only when the deck is short or 0 was asked for; a preset of t runs t
\* trials on a sufficient deck and stores t as the trial setting.
C20_ReturnsItsCount ==
  /\ []CountReturned
  /\ [][PresetStored]_vars
  /\ InCall ~> pc = "idle"

\* A preset other than the trial setting has run all its trials on a
\* sufficient deck and is about to be stored.
C20_Witness ==
  /\ pc = "done" /\ call.caller = "runSimWithTrials"
  /\ ~Short(call)
  /\ call.trials # trials /\ t = call.trials /\ ret.trials = call.trials

\* The length of a rank tuple by its category.
TupleLength ==
  [c \in 0..8 |->
     CASE c \in {8, 4} -> 2
       [] c \in {7, 6} -> 3
       [] c \in {3, 2} -> 4
       [] c = 1 -> 5
       [] c \in {5, 0} -> 6]

\* C27: the tuple rank5 returns for five distinct cards has the length of its
\* category (2 for a straight and a straight flush, 3 for four of a kind and a
\* full house, 4 for three of a kind and two pair, 5 for one pair, 6 for a
\* flush and a high card) and every element after the category is in 0..12;
\* two tuples of one category are so compared element by element, without
\* the -1 that stands for a missing element.
C27_FixedWidthPerCategory ==
  phase = "out" /\ Len(hand) = 5 /\ Distinct(hand) =>
    /\ result # Thrown
    /\ result[1] \in 0..8
    /\ Len(result) = TupleLength[result[1]]
    /\ \A k \in 2..Len(result) : result[k] \in 0..12

\* rank5 has returned two pair with its kicker, four elements in all.
C27_Witness ==
  /\ phase = "out" /\ Len(hand) = 5 /\ Distinct(hand)
  /\ result[1] = 2 /\ Len(result) = 4
  /\ result[4] \in 0..12

\* The cards of a hand in the order of the deck.
DeckIndex(c) == CHOOSE a \in DOMAIN makeDeck : makeDeck[a] = c
InDeckOrder(h) ==
  [k \in DOMAIN h |->
     CHOOSE c \in Range(h) :
       Cardinality({x \in Range(h) : DeckIndex(x) < DeckIndex(c)}) = k - 1] \o <<>>
SameStrength(r, canonical) == r # Thrown /\ canonical # Thrown /\ compareRank(r, canonical) = 0

\* C26: rank5 returns the same tuple for five distinct cards in any order, and
\* bestOf7 a rank that compares equal for seven distinct cards in any order:
\* each is what the call returns for the cards in the order of the deck.
C26_OrderIndependent ==
  /\ phase = "out" => result # Thrown /\ result = rank5(InDeckOrder(hand))
  /\ phase = "out7" => SameStrength(result, bestOf7(InDeckOrder(hand)))

\* Seven cards that arrived out of deck order, the low cards last, have been
\* ranked as a straight flush.
C26_Witness ==
  /\ phase = "out7" /\ hand # InDeckOrder(hand)
  /\ result[1] = 8

\* The equities of a result, as fractions of one common denominator.
Equities(r) == [k \in DOMAIN r.wins |-> seatEquity(r, k)]
Numerators(r) == [k \in DOMAIN r.wins |-> Equities(r)[k][1]]
InPercent(r) ==
  /\ \A k \in DOMAIN r.wins :
       /\ Equities(r)[k][2] = Equities(r)[1][2] /\ Equities(r)[k][2] > 0
       /\ 0 <= Equities(r)[k][1] /\ Equities(r)[k][1] <= 100 * Equities(r)[k][2]
  /\ SumSeq(Numerators(r)) <= 100 * Equities(r)[1][2]
  /\ Buckets(r) * SumSeq(r.wins) + SumSeq(r.ties) <= Buckets(r) * r.trials

\* C25: for a result with trials > 0, returned or shown, every seat's equity
\* (wins[i] + ties[i] / k) / trials * 100, k the number of seats with a tie
\* or 1, is between 0 and 100 and the equities of all seats sum to at most
\* 100: k * sum(wins) + sum(ties) <= k * trials.
C25_EquityWithinPot ==
  /\ pc = "done" /\ ret.trials > 0 => InPercent(ret)
  /\ results # NoResult /\ results.trials > 0 => InPercent(results)

\* The table shows a result with a won pot and a split pot, whose equities
\* sum to 100 exactly.
C25_Witness ==
  /\ pc = "idle" /\ results # NoResult /\ results.trials > 0
  /\ SumSeq(results.wins) > 0 /\ SumSeq(results.ties) > 0
  /\ SumSeq(Numerators(results)) = 100 * Equities(results)[1][2]

\* A generator state <<high, low>> in 0..2^32-1, and the step from x to y
\* that is y = (1664525 * x + 1013904223) mod 2^32, on 16-bit halves:
\* 1664525 = 25 * 2^16 + 26125 and 1013904223 = 15470 * 2^16 + 62303.
InU32(x) == Len(x) = 2 /\ x[1] \in 0..65535 /\ x[2] \in 0..65535
LcgStep(x, y) ==
  /\ (26125 * x[2] + 62303 - y[2]) % 65536 = 0
  /\ (26125 * x[1] + 25 * x[2] + 15470 + ((26125 * x[2] + 62303) \div 65536) - y[1]) % 65536 = 0
\* k = floor(x * n / 2^32)
IndexFor(x, n, k) ==
  /\ k * 65536 <= x[1] * n + ((x[2] * n) \div 65536)
  /\ x[1] * n + ((x[2] * n) \div 65536) < (k + 1) * 65536
\* b is a with the cards at 0-based positions m and k exchanged.
Exchanged(a, b, m, k) ==
  /\ Len(b) = Len(a)
  /\ b[m + 1] = a[k + 1] /\ b[k + 1] = a[m + 1]
  /\ \A n \in DOMAIN a : n \notin {m + 1, k + 1} => b[n] = a[n]
IsPermutation(a, b) ==
  /\ Len(a) = Len(b)
  /\ \A c \in Range(a) \cup Range(b) :
       Cardinality({n \in DOMAIN a : a[n] = c}) = Cardinality({n \in DOMAIN b : b[n] = c})
\* The base deck is the deck without the cards in use, in the order of the deck.
CanonicalBase(c, deck) ==
  /\ Range(deck) = CardsLeft(c)
  /\ \A a \in 1..(Len(deck) - 1) : DeckIndex(deck[a]) < DeckIndex(deck[a + 1])
ShuffleState ==
  /\ InU32(s)
  /\ pc = "loop" => CanonicalBase(call, deckArr)
  /\ pc = "shuffle" => IsPermutation(d, deckArr) /\ 0 <= i /\ i < Len(deckArr)
ShuffleStep ==
  /\ pc \in {"loop", "shuffle"} /\ pc' # "idle" => deckArr' = deckArr
  /\ pc = "loop" /\ pc' = "shuffle" => d' = deckArr /\ s' = s /\ i' = Len(deckArr) - 1
  /\ pc = "shuffle" /\ pc' = "shuffle" =>
       /\ LcgStep(s, s') /\ InU32(s')
       /\ IndexFor(s', i + 1, j') /\ 0 <= j' /\ j' <= i
       /\ Exchanged(d, d', i, j')
       /\ i' = i - 1
  /\ pc = "shuffle" /\ pc' # "shuffle" => i = 0 /\ s' = s /\ d' = d

\* C24: in every trial the shuffle is a Fisher-Yates pass over a fresh copy of
\* the base deck: each step takes the generator from s to
\* (1664525 * s + 1013904223) mod 2^32, within 0..2^32-1, picks
\* j = floor(s * (i + 1) / 2^32) with 0 <= j <= i and exchanges the cards at i
\* and j, so the working copy stays a permutation of the base deck; the base
\* deck is not modified, every trial starts from it, and only the generator
\* state is carried from one trial to the next.
C24_FisherYates == []ShuffleState /\ [][ShuffleStep]_vars

\* A later trial is being shuffled from a generator state above 2^31, left by
\* the trial before, and the last exchange moved a card.
C24_Witness ==
  /\ pc = "shuffle" /\ t >= 1 /\ i < Len(deckArr) - 1
  /\ s[1] > 32767
  /\ j # i + 1 /\ d # deckArr

\* The known cards of the folded seats of the table.
FoldedCards ==
  {players[k].cards[n] : k \in {m \in DOMAIN players : ~players[m].active}, n \in 1..2} \ {<<>>}
\* The cards the last trial put on the board or in the hand of seat k.
OnTrialBoard == Range(trialBoard)
InTrialHand(k) == Range(trialHoles[k])

\* C22: in a simulation started from the app no trial gives a card entered in
\* a folded seat's slots to another seat or to the board.
C22_FoldedCardsNotDealt ==
  call.caller \in {"runSim", "runSimWithTrials"} /\ pc \in {"loop", "done"} /\ t > 0 =>
    \A k \in DOMAIN players : ~players[k].active =>
      \A n \in 1..2 : players[k].cards[n] # <<>> =>
        /\ players[k].cards[n] \notin OnTrialBoard
        /\ \A m \in DOMAIN trialHoles : m # k => players[k].cards[n] \notin InTrialHand(m)

(* ------------------------- Table editing (the UI) ----------------------- *)
\* blocked, line 624: every card on the board, in the dead list or in a seat.
blocked(ps, b, dd) == used(ps, b, dd)

\* A seat's two slots as the inputs show them (p.cards[n]||""), slot n taking v.
withCard(cards, n, v) == [m \in 1..2 |-> IF m = n THEN v ELSE cards[m]]

\* CardInput.onChange (lines 164-170) under a hole-card input of seat idx
\* (line 191, or line 192 for the second slot) and updatePlayer (626-628):
\* the text v, its whitespace stripped, is stored when it parses to a card
\* that is not blocked, the slot is emptied when v is empty, and nothing
\* reaches the table otherwise.
typeHole(idx, n, v) ==
  /\ pc = "idle"
  /\ IF parseCard(v) # Null /\ parseCard(v) \notin blocked(players, board, dead)
     THEN players' = patchCards(players, idx, withCard(players[idx].cards, n, parseCard(v)))
     ELSE IF v = <<>>
     THEN players' = patchCards(players, idx, withCard(players[idx].cards, n, E))
     ELSE players' = players
  /\ stale' = (stale \/ players' # players)
  /\ UNCHANGED <<board, dead, trials, results, simVars, evalVars, equityData, curveOf, opp, data>>

\* The same handler under a board input (lines 210-212): n = board.slice();
\* n[i] = v; setBoard(n).
typeBoard(n, v) ==
  /\ pc = "idle"
  /\ IF parseCard(v) # Null /\ parseCard(v) \notin blocked(players, board, dead)
     THEN board' = [board EXCEPT ![n] = parseCard(v)]
     ELSE IF v = <<>>
     THEN board' = [board EXCEPT ![n] = E]
     ELSE board' = board
  /\ UNCHANGED <<players, dead, trials, results, simVars, evalVars, curveVars>>

\* Enter in the dead-card input, lines 689-693.
addDead(v) ==
  /\ pc = "idle"
  /\ IF parseCard(v) # Null /\ parseCard(v) \notin blocked(players, board, dead)
     THEN dead' = Append(dead, parseCard(v))
     ELSE dead' = dead
  /\ UNCHANGED <<players, board, trials, results, simVars, evalVars, curveVars>>

\* The x of a dead card, line 699: d.filter((_,j)=> j!==i).
removeDead(k) ==
  /\ pc = "idle"
  /\ k \in DOMAIN dead
  /\ dead' = PickKept(dead, DOMAIN dead \ {k})
  /\ UNCHANGED <<players, board, trials, results, simVars, evalVars, curveVars>>

\* Clear of the dead list, line 695.
clearDead ==
  /\ pc = "idle"
  /\ dead' = <<>>
  /\ UNCHANGED <<players, board, trials, results, simVars, evalVars, curveVars>>

\* Clear of a seat, line 195.
clearSeat(idx) ==
  /\ pc = "idle"
  /\ players' = patchCards(players, idx, <<E, E>>)
  /\ stale' = (stale \/ players' # players)
  /\ UNCHANGED <<board, dead, trials, results, simVars, evalVars, equityData, curveOf, opp, data>>

\* Clear board, line 215.
clearBoard ==
  /\ pc = "idle"
  /\ board' = EmptyBoard
  /\ UNCHANGED <<players, dead, trials, results, simVars, evalVars, curveVars>>

\* clearAll, lines 642-645.
clearAll ==
  /\ pc = "idle"
  /\ players' = DefaultSeats
  /\ board' = EmptyBoard
  /\ dead' = <<>>
  /\ results' = NoResult
  /\ equityData' = <<>>
  /\ curveOf' = <<>>
  /\ stale' = (stale \/ players' # players)
  /\ UNCHANGED <<trials, simVars, evalVars, opp, data>>

\* The empty slots randomDeal fills before it comes to slot n of seat k: the
\* value of ptr there (lines 633-637).
holesBefore(ps, k, n) ==
  Cardinality({q \in (1..Len(ps)) \X (1..2) :
                 /\ ps[q[1]].active /\ ps[q[1]].cards[q[2]] = E
                 /\ (q[1] < k \/ (q[1] = k /\ q[2] < n))})

\* Lines 633-639 on the shuffled deck dk: each empty slot of an active seat,
\* then each empty board slot, takes dk[ptr++].
dealtSeats(ps, dk) ==
  [k \in DOMAIN ps |->
     IF ps[k].active
     THEN [ps[k] EXCEPT !.cards =
             [n \in 1..2 |-> IF ps[k].cards[n] = E
                             THEN Elem(dk, holesBefore(ps, k, n))
                             ELSE ps[k].cards[n]]]
     ELSE ps[k]]
dealtBoard(ps, b, dk) ==
  [n \in 1..5 |->
     IF b[n] = E
     THEN Elem(dk, holesBefore(ps, Len(ps) + 1, 1) + Cardinality({m \in 1..(n - 1) : b[m] = E}))
     ELSE b[n]]

\* c brought to the top of dk, the rest in its order.
toFront(dk, c) == <<c>> \o PickKept(dk, {k \in DOMAIN dk : dk[k] # c})

\* Line 632 shuffles with Math.random, so every order of the deck can come
\* out.  The model takes the order left by no exchange and, for each card of
\* DealTops still in the deck, the orders with that card on top.
DealTops == {card("A", "s"), card("K", "d")}
shuffles(dk) == {dk} \cup {toFront(dk, c) : c \in DealTops \cap Range(dk)}

\* randomDeal, lines 630-641: the deck is the 52 cards without those of the
\* board and of the dead list (line 631).
randomDeal ==
  /\ pc = "idle"
  /\ \E dk \in shuffles(removeCards(makeDeck, board \o dead)) :
       /\ players' = dealtSeats(players, dk)
       /\ board' = dealtBoard(players, board, dk)
  /\ stale' = (stale \/ players' # players)
  /\ UNCHANGED <<dead, trials, results, simVars, evalVars, equityData, curveOf, opp, data>>

(* ------------------------ Harness: editing the table -------------------- *)
\* From the cleared table.  The texts typed are two cards (one in lower
\* case), the empty text and a text that is no card; typing goes to the
\* slots of the first two seats, the first board slot and the dead list.
TableTexts == { <<"a", "s">>, <<"K", "d">>, <<>>, <<"z">> }
EditSeats == {k \in DOMAIN DefaultSeats : k <= 2}
EditBoard == {n \in DOMAIN EmptyBoard : n <= 1}

\* Deal Random is pressed on a table whose other seats hold nothing yet: once
\* between two presses of Clear All.
Undealt == \A k \in DOMAIN players \ EditSeats : players[k].cards = <<E, E>>

InitTable == InitAt({TableDefault})

NextTable ==
  \/ \E idx \in EditSeats, n \in 1..2, v \in TableTexts : typeHole(idx, n, v)
  \/ \E n \in EditBoard, v \in TableTexts : typeBoard(n, v)
  \/ \E v \in TableTexts : addDead(v)
  \/ \E k \in DOMAIN dead : removeDead(k)
  \/ clearDead
  \/ \E idx \in EditSeats : clearSeat(idx)
  \/ clearBoard
  \/ clearAll
  \/ Undealt /\ randomDeal

SpecTable == InitTable /\ [][NextTable]_vars

\* The cards in the slots of the table: both slots of every seat, the five
\* board slots and the dead list, empty slots left out.
SlotCards == Truthy(Flatten([k \in DOMAIN players |-> players[k].cards]) \o board \o dead)

\* C21: from the cleared table, after any sequence of card entries, dead-card
\* additions and removals, seat clears, board clears, Clear All and Deal
\* Random, no card is in more than one slot among the hole cards, the board
\* and the dead list.
C21_NoCardTwice ==
  \A a, b \in DOMAIN SlotCards : a # b => SlotCards[a] # SlotCards[b]

(* ------------------------- The hero and the curve ----------------------- *)
\* The effect's dependency, line 683: players.map(p=>p.cards.join(":")).join("|").
cardsKey(ps) ==
  Flatten([k \in DOMAIN ps |->
             ps[k].cards[1] \o <<":">> \o ps[k].cards[2]
               \o (IF k < Len(ps) THEN <<"|">> ELSE <<>>)])

\* Set as hero / Unset hero, line 196, through updatePlayer (626-628): the
\* patch carries no cards, so the seat keeps its own.  The effect is due
\* again only when its dependency has changed.
toggleHero(idx) ==
  /\ pc = "idle"
  /\ players' = [players EXCEPT ![idx].isHero = ~players[idx].isHero]
  /\ stale' = (stale \/ cardsKey(players') # cardsKey(players))
  /\ UNCHANGED <<board, dead, trials, results, simVars, evalVars, equityData, curveOf, opp, data>>

\* loadSetup, lines 659-666, with the payload saveSetup stored from an
\* earlier table; the trial setting comes back as it was saved.
loadSetup(payload) ==
  /\ pc = "idle"
  /\ players' = payload.players
  /\ board' = payload.board
  /\ dead' = payload.dead
  /\ trials' = trials
  /\ stale' = (stale \/ cardsKey(players') # cardsKey(players))
  /\ UNCHANGED <<results, simVars, evalVars, equityData, curveOf, opp, data>>

\* A table saved earlier: seat 2 marked hero in place of seat 1 and holding
\* A-K, and the same table with the mark back on seat 1.
SavedSeats(h) ==
  [k \in 1..NumSeats |->
     Seat(TRUE, k = h, IF k = 2 THEN card("A", "s") ELSE E, IF k = 2 THEN card("K", "d") ELSE E)]
SavedSetups == {Table(SavedSeats(h), EmptyBoard, <<>>) : h \in EditSeats}

InitHero == InitAt({TableDefault})

NextHero ==
  \/ \E idx \in EditSeats, n \in 1..2, v \in TableTexts : typeHole(idx, n, v)
  \/ \E idx \in EditSeats : clearSeat(idx)
  \/ \E idx \in EditSeats : toggleHero(idx)
  \/ \E payload \in SavedSetups : loadSetup(payload)
  \/ clearAll
  \/ equityEffect
  \/ StartTrial
  \/ Swap
  \/ Trial
  \/ Finish
  \/ CurveNext
  \/ CurveEnd

SpecHero == InitHero /\ [][NextHero]_vars

\* C23: after any sequence of card entries, seat clears, Set as hero / Unset
\* hero, Load Setup and Clear All, once the pending effect has run the stored
\* equity curve belongs to the current hero hand: it is non-empty exactly when
\* the seat tracked as hero (the first seat marked hero, seat 1 if none) has
\* two known hole cards, and it was computed from that seat's two cards.
C23_CurveOfCurrentHero ==
  (pc = "idle" /\ ~stale) =>
     /\ (equityData # <<>>) <=> (Cardinality(HeroKnown) = 2)
     /\ equityData # <<>> => curveOf = players[HeroSeat].cards

====
